---- MODULE Spec2Model ----
(***************************************************************************)
(* Drift/Binance paper-trading arbitrage bot.                              *)
(*                                                                         *)
(* Components modelled: ArbitrageDetector (modules/arbitrage.py),          *)
(* PaperTrader, the trade ledger (modules/paper_trader.py), RiskManager    *)
(* (strategy/risk_manager.py), PriceMonitor (modules/price_monitor.py),    *)
(* PerformanceMonitor (modules/performance_monitor.py) and the two         *)
(* orchestrators that drive them, ImprovedArbitrageBot (arb_bot_v2.py)     *)
(* and DriftBinanceArbBot (core/main.py).                                  *)
(*                                                                         *)
(* Units.  The source computes in binary floating point; the model         *)
(* computes the same expressions exactly, on a grid on which every         *)
(* division is exact:                                                      *)
(*   prices and money  in cents            (100.50 USDT  = 10050)          *)
(*   spreads and fees  in 1/1000 percent   (0.5 percent  = 500)            *)
(* Optional[...] values are sequences of length 0 (None) or 1.             *)
(* datetime.utcnow().isoformat() stamps are readings of a clock that moves *)
(* on between two ledger events, so stamps order the opens and closes.     *)
(* Ratios that leave the grid (drawdown, ROI, win rate) are exact          *)
(* fractions in lowest terms.                                              *)
(***************************************************************************)
EXTENDS Integers, Sequences, FiniteSets, TLC

VARIABLES
    bot,              \* which orchestrator runs: "v2" or "core"
    pairs,            \* the pairs handed to PriceMonitor.start
    phase,            \* position of the orchestrator's run()/stop()
    pc,               \* position of each monitor_pair task
    pending,          \* core: the opportunity a suspended callback holds
    last_prices,      \* PriceMonitor.last_prices
    opportunities,    \* ArbitrageDetector.opportunities
    total_opportunities, \* ArbitrageDetector.total_opportunities
    checked,          \* the last check_opportunity call and what it returned
    initial_balance,  \* PaperTrader.initial_balance
    balance,          \* PaperTrader.balance
    trades,           \* PaperTrader.trades
    open_trades,      \* keys of PaperTrader.open_trades, in insertion order
    trade_counter,    \* PaperTrader.trade_counter
    disk,             \* data/paper_trades.json
    clock,            \* next reading of datetime.utcnow()
    call,             \* the last PaperTrader method call and what it returned
    risk,             \* the RiskManager's fields
    perf,             \* core: the PerformanceMonitor; v2 has none
    metrics_file,     \* data/performance_metrics.json
    aged,             \* ids of the trades opened more than 60 seconds ago
    sleep_left,       \* seconds left of each task's asyncio.sleep
    since_stop,       \* seconds since PriceMonitor.stop cleared the flag
    last_performance_report, \* core: 0 until the first hourly snapshot
    report            \* what get_profitability_report returned last

orchVars == <<bot, pairs, phase, pc, pending, last_prices>>
detVars == <<opportunities, total_opportunities, checked>>
ledgerVars == <<initial_balance, balance, trades, open_trades, trade_counter,
                disk, clock, call>>
perfVars == <<perf, metrics_file, last_performance_report, report>>
timeVars == <<sleep_left, since_stop>>
vars == <<bot, pairs, phase, pc, pending, last_prices, opportunities,
          total_opportunities, checked, initial_balance, balance, trades,
          open_trades, trade_counter, disk, clock, call, risk, perf,
          metrics_file, aged, sleep_left, since_stop,
          last_performance_report, report>>

---------------------------------------------------------------------------
\* Bounds of the model.

\* Cap on PaperTrader.trade_counter.
MaxTrades == 3

\* Cap on PaperTrader.trade_counter when the ledger is driven call by call.
MaxApiTrades == 2

\* Cap on len(ArbitrageDetector.opportunities).
MaxOpps == 3

\* Cap on PerformanceMetrics.total_trades.
MaxRecorded == 2

---------------------------------------------------------------------------
\* Configuration (arb_bot_v2.py main(), core/config.py) and fixed rates.
\* Both orchestrators run under one configuration.

\* config['min_spread_percent']: 0.05 percent (v2 main(); core computes it
\* as spread_threshold * 100, here with SPREAD_THRESHOLD=0.0005).
min_spread_percent == 50

\* config['trade_size_usdt']: 1000 USDT.
trade_size_usdt == 100000

\* config['max_open_trades']: BotConfig.max_open_positions, default 2.
max_open_trades == 2

\* v2 config['min_profit_usdt']: 1.0 USDT.
min_profit_usdt_v2 == 100

\* core config['min_profit_usdt']: MIN_PROFIT_USDT, default 0.05 USDT.
min_profit_usdt_core == 5

\* ArbitrageDetector.binance_fee_percent: 0.1 percent.
binance_fee_percent == 100

\* ArbitrageDetector.drift_fee_percent: 0.05 percent.
drift_fee_percent == 50

total_fees_percent == binance_fee_percent + drift_fee_percent

\* BotConfig.cooldown_after_losses (1..10, default 3), set to 2.
cooldown_after_losses == 2

\* config['initial_balance'], set to 3000 USDT: three trades use it up.
config_initial_balance == 300000

None == <<>>

Some(x) == <<x>>

SolPair == [spot_symbol |-> "SOLUSDT", perp_symbol |-> "SOLPERP"]

BtcPair == [spot_symbol |-> "BTCUSDT", perp_symbol |-> "BTCPERP"]

Pairs == {SolPair, BtcPair}

SpotSymbols == { p.spot_symbol : p \in Pairs }

PerpSymbols == { p.perp_symbol : p \in Pairs }

\* Spot prices the Binance ticker may return.
Spots == {10000, 20000}

SpotsOf(spot_symbol) == IF spot_symbol = "SOLUSDT" THEN Spots ELSE {10000}

\* Premiums get_drift_price draws, random.uniform(0.0005, 0.003).
Premiums == {100, 300}

\* perp_price = spot_price * (1 + premium)
PerpAt(spot, premium) == spot + (spot * premium) \div 100000

---------------------------------------------------------------------------
\* ArbitrageDetector

calculate_spread(spot_price, perp_price) ==
    ((perp_price - spot_price) * 100000) \div spot_price

calculate_profit(spread_percent, size) ==
    LET gross_profit_percent == spread_percent - total_fees_percent
    IN  IF gross_profit_percent > 0
        THEN (gross_profit_percent * size) \div 100000
        ELSE 0

\* Mutant: the threshold test lets a spread equal to the threshold pass.
SpreadReachesThreshold(spread_percent) ==
    spread_percent >= min_spread_percent + total_fees_percent

SpreadExceedsThreshold(spread_percent) ==
    spread_percent > min_spread_percent + total_fees_percent

\* The Optional[ArbitrageOpportunity] that check_opportunity returns.
check_opportunity(spot_symbol, perp_symbol, spot_price, perp_price, now) ==
    LET spread_percent == calculate_spread(spot_price, perp_price)
        potential_profit == calculate_profit(spread_percent, trade_size_usdt)
    IN  IF SpreadExceedsThreshold(spread_percent) /\ potential_profit > 0
        THEN Some([timestamp |-> now,
                   spot_symbol |-> spot_symbol,
                   perp_symbol |-> perp_symbol,
                   spot_price |-> spot_price,
                   perp_price |-> perp_price,
                   spread_percent |-> spread_percent,
                   potential_profit_usdt |-> potential_profit,
                   trade_size_usdt |-> trade_size_usdt])
        ELSE None

\* The detector's fields after the call: a produced opportunity is appended.
DetectorAfter(D, spot_price, perp_price, found) ==
    [opportunities |-> IF found = None THEN D.opportunities
                       ELSE Append(D.opportunities, found[1]),
     total_opportunities |-> IF found = None THEN D.total_opportunities
                             ELSE D.total_opportunities + 1,
     checked |-> Some([spot_price |-> spot_price, perp_price |-> perp_price,
                       ret |-> found])]

Detector == [opportunities |-> opportunities,
             total_opportunities |-> total_opportunities,
             checked |-> checked]

SetDetector(D) ==
    /\ opportunities' = D.opportunities
    /\ total_opportunities' = D.total_opportunities
    /\ checked' = D.checked

---------------------------------------------------------------------------
\* PaperTrader

Ledger == [balance |-> balance, trades |-> trades, open_trades |-> open_trades,
           trade_counter |-> trade_counter, disk |-> disk, clock |-> clock,
           call |-> call]

SetLedger(L) ==
    /\ balance' = L.balance
    /\ trades' = L.trades
    /\ open_trades' = L.open_trades
    /\ trade_counter' = L.trade_counter
    /\ disk' = L.disk
    /\ clock' = L.clock
    /\ call' = L.call

OpenStatus(T) == { i \in 1..Len(T) : T[i].status = "OPEN" }

ClosedStatus(T) == { i \in 1..Len(T) : T[i].status = "CLOSED" }

\* error: what the method logs when it returns None.
NoCall == [op |-> "none", trade_id |-> 0, ret |-> None, error |-> ""]

\* Mutant: the dict carries the entry side only.
asdict_entry(trade) ==
    [id |-> trade.id,
     timestamp |-> trade.timestamp,
     spot_symbol |-> trade.spot_symbol,
     perp_symbol |-> trade.perp_symbol,
     spot_price |-> trade.spot_price,
     perp_price |-> trade.perp_price,
     trade_size_usdt |-> trade.trade_size_usdt,
     spread_percent |-> trade.spread_percent,
     expected_profit |-> trade.expected_profit,
     status |-> "OPEN",
     close_spot_price |-> None,
     close_perp_price |-> None,
     actual_profit |-> None,
     close_timestamp |-> None]

\* dataclasses.asdict of a PaperTrade as json.dump writes it: one key per
\* field, None as null.
asdict(trade) ==
    [id |-> trade.id,
     timestamp |-> trade.timestamp,
     spot_symbol |-> trade.spot_symbol,
     perp_symbol |-> trade.perp_symbol,
     spot_price |-> trade.spot_price,
     perp_price |-> trade.perp_price,
     trade_size_usdt |-> trade.trade_size_usdt,
     spread_percent |-> trade.spread_percent,
     expected_profit |-> trade.expected_profit,
     status |-> trade.status,
     close_spot_price |-> trade.close_spot_price,
     close_perp_price |-> trade.close_perp_price,
     actual_profit |-> trade.actual_profit,
     close_timestamp |-> trade.close_timestamp]

\* PaperTrade(**d) for a dict json.load read.
PaperTrade(d) ==
    [id |-> d.id,
     timestamp |-> d.timestamp,
     spot_symbol |-> d.spot_symbol,
     perp_symbol |-> d.perp_symbol,
     spot_price |-> d.spot_price,
     perp_price |-> d.perp_price,
     trade_size_usdt |-> d.trade_size_usdt,
     spread_percent |-> d.spread_percent,
     expected_profit |-> d.expected_profit,
     status |-> d.status,
     close_spot_price |-> d.close_spot_price,
     close_perp_price |-> d.close_perp_price,
     actual_profit |-> d.actual_profit,
     close_timestamp |-> d.close_timestamp]

save_trades(L) ==
    [L EXCEPT !.disk = Some([balance |-> L.balance,
                             trade_counter |-> L.trade_counter,
                             trades |-> [i \in 1..Len(L.trades) |->
                                            asdict(L.trades[i])]])]

\* The file after open(..., 'w') succeeded and json.dump failed.
Truncated == Some([truncated |-> TRUE])

\* No file, or json.load raises and nothing is assigned.
Unreadable(file) == file = None \/ file = Truncated

\* PaperTrader.__init__ followed by load_trades: open_trades stays empty.
\* Mutant: the reload restores the trades but starts the counter afresh.
load_trades_recount(init_balance, file, now) ==
    [balance |-> IF Unreadable(file) THEN init_balance ELSE file[1].balance,
     trades |-> IF Unreadable(file) THEN <<>>
                ELSE [i \in 1..Len(file[1].trades) |->
                         PaperTrade(file[1].trades[i])],
     open_trades |-> {},
     trade_counter |-> 0,
     disk |-> file,
     clock |-> now,
     call |-> [op |-> "load_trades", trade_id |-> 0, ret |-> None,
              error |-> ""]]

load_trades(init_balance, file, now) ==
    [balance |-> IF Unreadable(file) THEN init_balance ELSE file[1].balance,
     trades |-> IF Unreadable(file) THEN <<>>
                ELSE [i \in 1..Len(file[1].trades) |->
                         PaperTrade(file[1].trades[i])],
     open_trades |-> {},
     trade_counter |-> IF Unreadable(file) THEN 0 ELSE file[1].trade_counter,
     disk |-> file,
     clock |-> now,
     call |-> [op |-> "load_trades", trade_id |-> 0, ret |-> None,
              error |-> ""]]

InsufficientBalance(L, opportunity) ==
    L.balance < opportunity.trade_size_usdt

NewTrade(id, now, opportunity) ==
    [id |-> id,
     timestamp |-> now,
     spot_symbol |-> opportunity.spot_symbol,
     perp_symbol |-> opportunity.perp_symbol,
     spot_price |-> opportunity.spot_price,
     perp_price |-> opportunity.perp_price,
     trade_size_usdt |-> opportunity.trade_size_usdt,
     spread_percent |-> opportunity.spread_percent,
     expected_profit |-> opportunity.potential_profit_usdt,
     status |-> "OPEN",
     close_spot_price |-> None,
     close_perp_price |-> None,
     actual_profit |-> None,
     close_timestamp |-> None]

\* Mutant: the trade id is taken before the balance is checked.
execute_trade_counting(L, opportunity) ==
    IF InsufficientBalance(L, opportunity)
    THEN save_trades(
           [L EXCEPT !.trade_counter = @ + 1,
                     !.call = [op |-> "execute_trade", trade_id |-> 0,
                               ret |-> None, error |-> "Insufficient balance"]])
    ELSE LET id == L.trade_counter + 1
             trade == NewTrade(id, L.clock, opportunity)
         IN  save_trades(
               [L EXCEPT !.trade_counter = id,
                         !.clock = @ + 1,
                         !.balance = @ - trade.trade_size_usdt,
                         !.trades = Append(@, trade),
                         !.open_trades = @ \cup {id},
                         !.call = [op |-> "execute_trade", trade_id |-> id,
                                   ret |-> Some(id), error |-> ""]])

execute_trade(L, opportunity) ==
    IF InsufficientBalance(L, opportunity)
    THEN [L EXCEPT !.call = [op |-> "execute_trade", trade_id |-> 0,
                             ret |-> None, error |-> "Insufficient balance"]]
    ELSE LET id == L.trade_counter + 1
             trade == NewTrade(id, L.clock, opportunity)
         IN  save_trades(
               [L EXCEPT !.trade_counter = id,
                         !.clock = @ + 1,
                         !.balance = @ - trade.trade_size_usdt,
                         !.trades = Append(@, trade),
                         !.open_trades = @ \cup {id},
                         !.call = [op |-> "execute_trade", trade_id |-> id,
                                   ret |-> Some(id), error |-> ""]])

\* Position in the trades list of the object open_trades[trade_id] refers to.
TradeIndex(L, trade_id) ==
    CHOOSE i \in 1..Len(L.trades) :
        /\ L.trades[i].id = trade_id
        /\ \A j \in (i + 1)..Len(L.trades) : L.trades[j].id # trade_id

\* Mutant: the close charges the spot leg's fee only.
ActualProfitSpotFee(trade, current_spot, current_perp) ==
    LET entry_spread == trade.perp_price - trade.spot_price
        exit_spread == current_perp - current_spot
        spread_captured == entry_spread - exit_spread
        gross_profit == (spread_captured * trade.trade_size_usdt)
                            \div trade.spot_price
        fees == (trade.trade_size_usdt * 10) \div 10000
    IN  gross_profit - fees

ActualProfit(trade, current_spot, current_perp) ==
    LET entry_spread == trade.perp_price - trade.spot_price
        exit_spread == current_perp - current_spot
        spread_captured == entry_spread - exit_spread
        gross_profit == (spread_captured * trade.trade_size_usdt)
                            \div trade.spot_price
        fees == (trade.trade_size_usdt * 15) \div 10000
    IN  gross_profit - fees

\* Mutant: the close forgets to stamp the trade.
ClosedTradeUnstamped(trade, current_spot, current_perp, now) ==
    [trade EXCEPT !.close_spot_price = Some(current_spot),
                  !.close_perp_price = Some(current_perp),
                  !.actual_profit =
                      Some(ActualProfit(trade, current_spot, current_perp)),
                  !.status = "CLOSED"]

\* Mutant: the close overwrites the entry spread with the exit spread.
ClosedTradeRespread(trade, current_spot, current_perp, now) ==
    [trade EXCEPT !.close_spot_price = Some(current_spot),
                  !.close_perp_price = Some(current_perp),
                  !.actual_profit =
                      Some(ActualProfit(trade, current_spot, current_perp)),
                  !.close_timestamp = Some(now),
                  !.spread_percent =
                      ((current_perp - current_spot) * 100000) \div current_spot,
                  !.status = "CLOSED"]

ClosedTrade(trade, current_spot, current_perp, now) ==
    [trade EXCEPT !.close_spot_price = Some(current_spot),
                  !.close_perp_price = Some(current_perp),
                  !.actual_profit =
                      Some(ActualProfit(trade, current_spot, current_perp)),
                  !.close_timestamp = Some(now),
                  !.status = "CLOSED"]

\* Mutant: the close returns the profit but not the capital in use.
close_trade_keeps_capital(L, trade_id, current_spot, current_perp) ==
    IF trade_id \notin L.open_trades
    THEN [L EXCEPT !.call = [op |-> "close_trade", trade_id |-> trade_id,
                             ret |-> None, error |-> "not found in open trades"]]
    ELSE LET i == TradeIndex(L, trade_id)
             trade == L.trades[i]
             actual_profit == ActualProfit(trade, current_spot, current_perp)
         IN  save_trades(
               [L EXCEPT !.trades[i] = ClosedTrade(trade, current_spot,
                                                   current_perp, L.clock),
                         !.clock = @ + 1,
                         !.balance = @ + actual_profit,
                         !.open_trades = @ \ {trade_id},
                         !.call = [op |-> "close_trade", trade_id |-> trade_id,
                                   ret |-> Some(actual_profit), error |-> ""]])

\* Mutant: the trade is looked up in the trades list, not in open_trades.
close_trade_by_list(L, trade_id, current_spot, current_perp) ==
    IF \A j \in 1..Len(L.trades) : L.trades[j].id # trade_id
    THEN [L EXCEPT !.call = [op |-> "close_trade", trade_id |-> trade_id,
                             ret |-> None, error |-> "not found in open trades"]]
    ELSE LET i == TradeIndex(L, trade_id)
             trade == L.trades[i]
             actual_profit == ActualProfit(trade, current_spot, current_perp)
         IN  save_trades(
               [L EXCEPT !.trades[i] = ClosedTrade(trade, current_spot,
                                                   current_perp, L.clock),
                         !.clock = @ + 1,
                         !.balance = @ + trade.trade_size_usdt + actual_profit,
                         !.open_trades = @ \ {trade_id},
                         !.call = [op |-> "close_trade", trade_id |-> trade_id,
                                   ret |-> Some(actual_profit), error |-> ""]])

close_trade(L, trade_id, current_spot, current_perp) ==
    IF trade_id \notin L.open_trades
    THEN [L EXCEPT !.call = [op |-> "close_trade", trade_id |-> trade_id,
                             ret |-> None, error |-> "not found in open trades"]]
    ELSE LET i == TradeIndex(L, trade_id)
             trade == L.trades[i]
             actual_profit == ActualProfit(trade, current_spot, current_perp)
         IN  save_trades(
               [L EXCEPT !.trades[i] = ClosedTrade(trade, current_spot,
                                                   current_perp, L.clock),
                         !.clock = @ + 1,
                         !.balance = @ + trade.trade_size_usdt + actual_profit,
                         !.open_trades = @ \ {trade_id},
                         !.call = [op |-> "close_trade", trade_id |-> trade_id,
                                   ret |-> Some(actual_profit), error |-> ""]])

---------------------------------------------------------------------------
\* RiskManager.  datetime.now() is the clock.

\* BotConfig.max_drawdown: 0.05, compared with daily_loss as it stands.
max_drawdown == 5

\* BotConfig.max_trades_per_day (1..1000, default 50), set to 3.
max_trades_per_day == 3

\* timedelta(minutes=cooldown_duration_min), in units of the clock.
cooldown_duration == 2

max_position_size == trade_size_usdt * 3

\* The fields __init__ sets; open_positions is a dict, here a set of
\* <<key, size>> pairs.
RiskInit == [daily_trades |-> 0, daily_loss |-> 0, consecutive_losses |-> 0,
             cooldown_until |-> None, open_positions |-> {}]

RECURSIVE SumSizes(_)
SumSizes(S) ==
    IF S = {} THEN 0
    ELSE LET e == CHOOSE x \in S : TRUE IN e[2] + SumSizes(S \ {e})

Abs(x) == IF x < 0 THEN -x ELSE x

\* Mutant: the daily trade limit lets one trade too many through.
check_trade_allowed_lenient(R, size, now) ==
    IF R.cooldown_until # None /\ now < R.cooldown_until[1]
    THEN [allowed |-> FALSE, reason |-> "In cooldown"]
    ELSE IF R.daily_trades > max_trades_per_day
    THEN [allowed |-> FALSE, reason |-> "Daily trade limit reached"]
    ELSE IF Abs(R.daily_loss) >= max_drawdown
    THEN [allowed |-> FALSE, reason |-> "Daily loss limit reached"]
    ELSE IF SumSizes(R.open_positions) + size > max_position_size
    THEN [allowed |-> FALSE, reason |-> "Position size limit exceeded"]
    ELSE [allowed |-> TRUE, reason |-> "Trade allowed"]

check_trade_allowed(R, size, now) ==
    IF R.cooldown_until # None /\ now < R.cooldown_until[1]
    THEN [allowed |-> FALSE, reason |-> "In cooldown"]
    ELSE IF R.daily_trades >= max_trades_per_day
    THEN [allowed |-> FALSE, reason |-> "Daily trade limit reached"]
    ELSE IF Abs(R.daily_loss) >= max_drawdown
    THEN [allowed |-> FALSE, reason |-> "Daily loss limit reached"]
    ELSE IF SumSizes(R.open_positions) + size > max_position_size
    THEN [allowed |-> FALSE, reason |-> "Position size limit exceeded"]
    ELSE [allowed |-> TRUE, reason |-> "Trade allowed"]

\* Mutant: the loss count starts afresh when a cooldown starts.
record_trade_result_rearmed(R, profit, size, now) ==
    LET R1 == [R EXCEPT !.daily_trades = @ + 1, !.daily_loss = @ + profit]
    IN  IF profit < 0
        THEN IF R1.consecutive_losses + 1 >= cooldown_after_losses
             THEN [R1 EXCEPT !.consecutive_losses = 0,
                             !.cooldown_until = Some(now + cooldown_duration)]
             ELSE [R1 EXCEPT !.consecutive_losses = @ + 1]
        ELSE [R1 EXCEPT !.consecutive_losses = 0]

\* Mutant: a result of exactly zero counts as a loss.
record_trade_result_strict(R, profit, size, now) ==
    LET R1 == [R EXCEPT !.daily_trades = @ + 1, !.daily_loss = @ + profit]
    IN  IF profit <= 0
        THEN LET R2 == [R1 EXCEPT !.consecutive_losses = @ + 1]
             IN  IF R2.consecutive_losses >= cooldown_after_losses
                 THEN [R2 EXCEPT !.cooldown_until = Some(now + cooldown_duration)]
                 ELSE R2
        ELSE [R1 EXCEPT !.consecutive_losses = 0]

record_trade_result(R, profit, size, now) ==
    LET R1 == [R EXCEPT !.daily_trades = @ + 1, !.daily_loss = @ + profit]
    IN  IF profit < 0
        THEN LET R2 == [R1 EXCEPT !.consecutive_losses = @ + 1]
             IN  IF R2.consecutive_losses >= cooldown_after_losses
                 THEN [R2 EXCEPT !.cooldown_until = Some(now + cooldown_duration)]
                 ELSE R2
        ELSE [R1 EXCEPT !.consecutive_losses = 0]

reset_daily_limits(R) ==
    [R EXCEPT !.daily_trades = 0, !.daily_loss = 0, !.consecutive_losses = 0]

---------------------------------------------------------------------------
\* State after construction of the bot, before run().

---------------------------------------------------------------------------
\* PerformanceMonitor (modules/performance_monitor.py).  The Sharpe ratio is
\* left out: nothing below reads it.  datetime.utcnow() is the clock, of
\* which clock_per_hour units make an hour.

RECURSIVE GCD(_, _)
GCD(a, b) == IF b = 0 THEN a ELSE GCD(b, a % b)

\* The fraction n/d (d > 0) in lowest terms.
Rat(n, d) ==
    LET g == GCD(Abs(n), d)
    IN  [num |-> n \div g, den |-> d \div g]

RatLeq(x, y) == x.num * y.den <= y.num * x.den

RatLess(x, y) == x.num * y.den < y.num * x.den

RatMax(x, y) == IF RatLeq(x, y) THEN y ELSE x

Max(a, b) == IF a >= b THEN a ELSE b

Min(a, b) == IF a <= b THEN a ELSE b

\* runtime.total_seconds() / 3600: the units of the clock in an hour.
clock_per_hour == 4

\* hourly_snapshots[-168:]
snapshots_kept == 168

PerformanceMetrics ==
    [total_opportunities |-> 0, total_trades |-> 0,
     profitable_trades |-> 0, losing_trades |-> 0,
     total_gross_profit |-> 0, total_fees_paid |-> 0, total_net_profit |-> 0,
     largest_win |-> 0, largest_loss |-> 0,
     win_rate |-> Rat(0, 1), profit_factor |-> Rat(0, 1),
     average_profit_per_trade |-> Rat(0, 1), roi_percentage |-> Rat(0, 1),
     total_runtime_hours |-> Rat(0, 1), trades_per_hour |-> Rat(0, 1),
     opportunities_per_hour |-> Rat(0, 1),
     max_drawdown |-> Rat(0, 1), current_drawdown |-> Rat(0, 1)]

\* load_metrics restores two counters of the file and nothing else.
load_metrics(m, file) ==
    IF file = None THEN m
    ELSE [m EXCEPT !.total_opportunities = file[1].metrics.total_opportunities,
                   !.total_trades = file[1].metrics.total_trades]

\* PerformanceMonitor.__init__
PerformanceMonitor(init_balance, file, now) ==
    [initial_balance |-> init_balance,
     metrics |-> load_metrics(PerformanceMetrics, file),
     start_time |-> now,
     hourly_snapshots |-> <<>>,
     balance_history |-> <<init_balance>>,
     peak_balance |-> init_balance]

\* Mutant: the peak follows the balance down as well as up.
update_balance_tracking(P, new_balance) ==
    LET dd == IF new_balance > 0 THEN Rat(0, new_balance)
              ELSE P.metrics.current_drawdown
    IN  [P EXCEPT !.balance_history = Append(@, new_balance),
                  !.peak_balance = new_balance,
                  !.metrics.current_drawdown = dd,
                  !.metrics.max_drawdown = RatMax(@, dd)]

update_balance(P, new_balance) ==
    LET peak == IF new_balance > P.peak_balance THEN new_balance
                ELSE P.peak_balance
        dd == IF peak > 0 THEN Rat((peak - new_balance) * 100, peak)
              ELSE P.metrics.current_drawdown
    IN  [P EXCEPT !.balance_history = Append(@, new_balance),
                  !.peak_balance = peak,
                  !.metrics.current_drawdown = dd,
                  !.metrics.max_drawdown = RatMax(@, dd)]

update_derived_metrics(P) ==
    LET m == P.metrics
        total_wins == IF m.largest_win # 0
                      THEN m.profitable_trades * Abs(m.largest_win) ELSE 0
        total_losses == IF m.largest_loss # 0
                        THEN m.losing_trades * Abs(m.largest_loss) ELSE 0
        current_balance == P.balance_history[Len(P.balance_history)]
    IN  [P EXCEPT
           !.metrics.win_rate =
               IF m.total_trades > 0
               THEN Rat(m.profitable_trades * 100, m.total_trades) ELSE @,
           !.metrics.average_profit_per_trade =
               IF m.total_trades > 0
               THEN Rat(m.total_net_profit, m.total_trades) ELSE @,
           !.metrics.profit_factor =
               IF total_losses > 0 THEN Rat(total_wins, total_losses)
               ELSE Rat(total_wins, 1),
           !.metrics.roi_percentage =
               IF P.initial_balance > 0
               THEN Rat((current_balance - P.initial_balance) * 100,
                        P.initial_balance)
               ELSE @]

update_time_metrics(P, now) ==
    LET runtime == now - P.start_time
        m == P.metrics
    IN  [P EXCEPT
           !.metrics.total_runtime_hours = Rat(runtime, clock_per_hour),
           !.metrics.trades_per_hour =
               IF runtime > 0
               THEN Rat(m.total_trades * clock_per_hour, runtime) ELSE @,
           !.metrics.opportunities_per_hour =
               IF runtime > 0
               THEN Rat(m.total_opportunities * clock_per_hour, runtime)
               ELSE @]

record_opportunity(P, now) ==
    update_time_metrics([P EXCEPT !.metrics.total_opportunities = @ + 1], now)

\* PerformanceMetrics.to_dict: of the dictionary, the trading counters and
\* the net profit; round(x, 2) leaves an amount in cents as it is.
to_dict(m) ==
    [total_opportunities |-> m.total_opportunities,
     total_trades |-> m.total_trades,
     profitable_trades |-> m.profitable_trades,
     losing_trades |-> m.losing_trades,
     net_profit |-> m.total_net_profit]

\* s[-n:]
LastOf(s, n) ==
    IF Len(s) <= n THEN s ELSE SubSeq(s, Len(s) - n + 1, Len(s))

\* What save_metrics writes.
save_metrics(P) ==
    Some([metrics |-> to_dict(P.metrics),
          hourly_snapshots |-> LastOf(P.hourly_snapshots, snapshots_kept)])

\* record_trade up to save_metrics; trade_result is (net_profit, total_fees).
record_trade(P, net_profit, fees) ==
    LET won == net_profit > 0
    IN  update_derived_metrics(
          [P EXCEPT
             !.metrics.total_trades = @ + 1,
             !.metrics.total_fees_paid = @ + fees,
             !.metrics.total_net_profit = @ + net_profit,
             !.metrics.total_gross_profit = @ + net_profit + fees,
             !.metrics.profitable_trades = IF won THEN @ + 1 ELSE @,
             !.metrics.largest_win = IF won THEN Max(@, net_profit) ELSE @,
             !.metrics.losing_trades = IF won THEN @ ELSE @ + 1,
             !.metrics.largest_loss = IF won THEN @ ELSE Min(@, net_profit)])

\* take_hourly_snapshot up to save_metrics.
take_hourly_snapshot(P, now) ==
    [P EXCEPT !.hourly_snapshots =
        Append(@, [timestamp |-> now,
                   metrics |-> to_dict(P.metrics),
                   balance |-> P.balance_history[Len(P.balance_history)]])]

\* Mutant: the drawdown advice is given whenever the last balance is below
\* the peak, read from the balances and not from the metrics.
generate_recommendations_from_peak(P) ==
    LET m == P.metrics
        add(s, cond, text) == IF cond THEN Append(s, text) ELSE s
        r1 == IF m.total_net_profit < 0 THEN <<"unprofitable">>
              ELSE <<"profitable">>
        r2 == IF RatLess(m.win_rate, Rat(40, 1))
              THEN Append(r1, "low win rate")
              ELSE add(r1, RatLess(Rat(70, 1), m.win_rate), "high win rate")
        r3 == IF RatLess(m.trades_per_hour, Rat(1, 2))
              THEN Append(r2, "low trade frequency")
              ELSE add(r2, RatLess(Rat(5, 1), m.trades_per_hour),
                       "high trade frequency")
        r4 == add(r3, P.peak_balance
                        > P.balance_history[Len(P.balance_history)],
                  "high drawdown")
    IN  add(r4, 2 * m.total_fees_paid > Abs(m.total_gross_profit),
            "fees above half of profits")

\* _generate_recommendations
generate_recommendations(P) ==
    LET m == P.metrics
        add(s, cond, text) == IF cond THEN Append(s, text) ELSE s
        r1 == IF m.total_net_profit < 0 THEN <<"unprofitable">>
              ELSE <<"profitable">>
        r2 == IF RatLess(m.win_rate, Rat(40, 1))
              THEN Append(r1, "low win rate")
              ELSE add(r1, RatLess(Rat(70, 1), m.win_rate), "high win rate")
        r3 == IF RatLess(m.trades_per_hour, Rat(1, 2))
              THEN Append(r2, "low trade frequency")
              ELSE add(r2, RatLess(Rat(5, 1), m.trades_per_hour),
                       "high trade frequency")
        r4 == add(r3, RatLess(Rat(10, 1), m.max_drawdown), "high drawdown")
    IN  add(r4, 2 * m.total_fees_paid > Abs(m.total_gross_profit),
            "fees above half of profits")

\* get_profitability_report: the monitor after the call and, of the report,
\* the summary's verdict and profit, the recommendations and the metrics.
get_profitability_report(P, now) ==
    LET P1 == update_time_metrics(P, now)
    IN  [monitor |-> P1,
         report |-> [is_profitable |-> P1.metrics.total_net_profit > 0,
                     total_net_profit |-> P1.metrics.total_net_profit,
                     recommendations |-> generate_recommendations(P1),
                     detailed_metrics |-> to_dict(P1.metrics)]]

\* DriftBinanceArbBot.__init__ and run() up to price_monitor.start: the
\* monitor is constructed, told the ledger's balance and asked for a report.
\* v2 has no monitor.
started_monitor(b, init_balance, current_balance, file, now) ==
    IF b = "core"
    THEN Some(get_profitability_report(
                update_balance(PerformanceMonitor(init_balance, file, now),
                               current_balance), now).monitor)
    ELSE None

started_report(b, init_balance, current_balance, file, now) ==
    IF b = "core"
    THEN Some(get_profitability_report(
                update_balance(PerformanceMonitor(init_balance, file, now),
                               current_balance), now).report)
    ELSE None

Tracking == [monitor |-> perf, file |-> metrics_file,
             last_report |-> last_performance_report, report |-> report]

IsTracking(T) ==
    /\ perf = T.monitor
    /\ metrics_file = T.file
    /\ last_performance_report = T.last_report
    /\ report = T.report

SetTracking(T) ==
    /\ perf' = T.monitor
    /\ metrics_file' = T.file
    /\ last_performance_report' = T.last_report
    /\ report' = T.report

\* DriftBinanceArbBot.price_callback, the opportunity is recorded.
record_found(T, found, now) ==
    IF found THEN [T EXCEPT !.monitor = Some(record_opportunity(@[1], now))]
    ELSE T

\* DriftBinanceArbBot.price_callback, its last step: an hour after the last
\* snapshot the next one is taken, and with a Discord webhook and trades
\* recorded a report is sent.  last_performance_report starts at 0, so the
\* first callback of a session takes a snapshot; the session is followed
\* through the hour after it.
hourly_report(T, now, discord) ==
    IF T.last_report # 0 THEN T
    ELSE LET P1 == take_hourly_snapshot(T.monitor[1], now)
             sent == discord /\ P1.metrics.total_trades > 0
             R == get_profitability_report(P1, now)
         IN  [monitor |-> Some(IF sent THEN R.monitor ELSE P1),
              file |-> save_metrics(P1),
              last_report |-> 1,
              report |-> IF sent THEN Some(R.report) ELSE T.report]

\* DriftBinanceArbBot.shutdown: every CLOSED trade of the ledger is recorded,
\* then the final balance.
RECURSIVE record_closed(_, _, _)
record_closed(P, T, i) ==
    IF i > Len(T) THEN P
    ELSE record_closed(
           IF T[i].status = "CLOSED"
           THEN record_trade(P, T[i].actual_profit[1],
                             Abs(T[i].actual_profit[1] - T[i].expected_profit))
           ELSE P,
           T, i + 1)

shutdown_monitor(P, L) ==
    update_balance(record_closed(P, L.trades, 1), L.balance)

\* DriftBinanceArbBot.shutdown from the record_trade loop to the final
\* report.
shutdown_tracking(T, L, now) ==
    LET R == get_profitability_report(shutdown_monitor(T.monitor[1], L), now)
    IN  [monitor |-> Some(R.monitor),
         file |-> IF ClosedStatus(L.trades) # {}
                  THEN save_metrics(record_closed(T.monitor[1], L.trades, 1))
                  ELSE T.file,
         last_report |-> T.last_report,
         report |-> Some(R.report)]

\* A new DriftBinanceArbBot over the metrics file, up to
\* price_monitor.start.
started_tracking(b, init_balance, current_balance, file, now) ==
    [monitor |-> started_monitor(b, init_balance, current_balance, file, now),
     file |-> file,
     last_report |-> 0,
     report |-> started_report(b, init_balance, current_balance, file, now)]

---------------------------------------------------------------------------
\* The state in which run() reaches price_monitor.start.

Init ==
    /\ bot \in {"v2", "core"}
    /\ pairs = {SolPair}
    /\ phase = "running"
    /\ pc = [p \in pairs |-> "poll"]
    /\ pending = [p \in pairs |-> None]
    /\ last_prices = [binance |-> [s \in SpotSymbols |-> None],
                      drift |-> [s \in PerpSymbols |-> None]]
    /\ opportunities = <<>>
    /\ total_opportunities = 0
    /\ checked = None
    /\ initial_balance = config_initial_balance
    /\ balance = initial_balance
    /\ trades = <<>>
    /\ open_trades = {}
    /\ trade_counter = 0
    /\ disk = None
    /\ clock = 0
    /\ call = NoCall
    /\ risk = RiskInit
    /\ IsTracking(started_tracking(bot, initial_balance, balance, None, clock))
    /\ aged = {}
    /\ sleep_left = [p \in pairs |-> 0]
    /\ since_stop = 0

---------------------------------------------------------------------------
\* PriceMonitor.monitor_pair: one iteration's two fetches.
\* binance is the ticker's answer (None: unavailable), retry the answer to the
\* second request get_drift_price sends when no spot price is cached.

Fetches(spot_symbol) == {None} \cup { Some(s) : s \in SpotsOf(spot_symbol) }

\* The second request is only sent when the first failed on an empty cache.
Retries(lp, spot_symbol, binance) ==
    IF binance = None /\ lp.binance[spot_symbol] = None
    THEN Fetches(spot_symbol) ELSE {None}

AfterBinance(lp, spot_symbol, binance) ==
    IF binance = None THEN lp
    ELSE [lp EXCEPT !.binance[spot_symbol] = binance]

\* get_drift_price: str.replace('PERP', 'USDT') names the cached spot price.
BaseSymbol(perp_symbol) ==
    (CHOOSE p \in Pairs : p.perp_symbol = perp_symbol).spot_symbol

AfterDrift(lp, perp_symbol, premium, retry) ==
    LET base == BaseSymbol(perp_symbol)
        lp1 == IF lp.binance[base] = None
               THEN AfterBinance(lp, base, retry) ELSE lp
    IN  IF lp1.binance[base] = None THEN lp1
        ELSE [lp1 EXCEPT !.drift[perp_symbol] =
                            Some(PerpAt(lp1.binance[base][1], premium))]

\* Mutant: with the ticker unavailable the callback gets the cached spot price.
TickPricesCached(lp, pair, binance, premium, retry) ==
    LET lp2 == AfterDrift(AfterBinance(lp, pair.spot_symbol, binance),
                          pair.perp_symbol, premium, retry)
    IN  IF lp2.binance[pair.spot_symbol] # None
           /\ lp2.drift[pair.perp_symbol] # None
        THEN Some([spot_price |-> lp2.binance[pair.spot_symbol][1],
                   perp_price |-> lp2.drift[pair.perp_symbol][1]])
        ELSE None

\* The prices monitor_pair passes to the callback; None: the tick is skipped.
TickPrices(lp, pair, binance, premium, retry) ==
    LET lp2 == AfterDrift(AfterBinance(lp, pair.spot_symbol, binance),
                          pair.perp_symbol, premium, retry)
    IN  IF binance # None /\ lp2.drift[pair.perp_symbol] # None
        THEN Some([spot_price |-> binance[1],
                   perp_price |-> lp2.drift[pair.perp_symbol][1]])
        ELSE None

---------------------------------------------------------------------------
\* ImprovedArbitrageBot (arb_bot_v2.py)

unrealized_pnl(trade, spot_price, perp_price) ==
    LET current_spread == calculate_spread(spot_price, perp_price)
        spread_change == trade.spread_percent - current_spread
    IN  (spread_change * trade.trade_size_usdt) \div 100000
            - (trade.trade_size_usdt * 15) \div 10000

\* trade.timestamp is an ISO string, so hasattr(..., 'timestamp') is false.
trade_age(trade) == 60

\* The (should_exit, reason) pair the exit rules leave; later rules overwrite.
exit_decision(trade, spot_price, perp_price) ==
    LET current_spread == calculate_spread(spot_price, perp_price)
        pnl == unrealized_pnl(trade, spot_price, perp_price)
        target == current_spread <= 100
        stop == pnl < -200
        take == pnl > 0 /\ 2 * current_spread < trade.spread_percent
        expired == trade_age(trade) > 60
    IN  [should_exit |-> target \/ stop \/ take \/ expired,
         reason |-> IF expired THEN "Max time reached"
                    ELSE IF take THEN "Take profit"
                    ELSE IF stop THEN "Stop loss triggered"
                    ELSE IF target THEN "Target spread reached"
                    ELSE ""]

\* The ids of a set in ascending order: the dict's insertion order.
RECURSIVE Ascending(_)
Ascending(S) ==
    IF S = {} THEN <<>>
    ELSE LET m == CHOOSE x \in S : \A y \in S : x <= y
         IN  <<m>> \o Ascending(S \ {m})

RECURSIVE exit_loop(_, _, _, _, _)
exit_loop(L, ids, spot_symbol, spot_price, perp_price) ==
    IF ids = <<>> THEN L
    ELSE LET trade == L.trades[TradeIndex(L, Head(ids))]
             L1 == IF trade.spot_symbol = spot_symbol
                      /\ exit_decision(trade, spot_price, perp_price).should_exit
                   THEN close_trade(L, Head(ids), spot_price, perp_price)
                   ELSE L
         IN  exit_loop(L1, Tail(ids), spot_symbol, spot_price, perp_price)

check_exit_conditions(L, spot_symbol, spot_price, perp_price) ==
    exit_loop(L, Ascending(L.open_trades), spot_symbol, spot_price, perp_price)

should_take_trade(opportunity) ==
    /\ opportunity.potential_profit_usdt >= min_profit_usdt_v2
    /\ opportunity.spread_percent > min_spread_percent + 200

\* Mutant: the capacity test is off by one.
HasCapacityOrFull(L) == Cardinality(L.open_trades) <= max_open_trades

HasCapacity(L) == Cardinality(L.open_trades) < max_open_trades

\* price_callback: the ledger and the detector after the whole callback.
v2_price_callback(L, D, pair, spot_price, perp_price) ==
    LET L1 == check_exit_conditions(L, pair.spot_symbol, spot_price, perp_price)
        found == check_opportunity(pair.spot_symbol, pair.perp_symbol,
                                   spot_price, perp_price, L1.clock)
    IN  IF HasCapacity(L1)
        THEN [ledger |-> IF found # None /\ should_take_trade(found[1])
                         THEN execute_trade(L1, found[1]) ELSE L1,
              detector |-> DetectorAfter(D, spot_price, perp_price, found)]
        ELSE [ledger |-> L1, detector |-> D]

WithinCaps(L, D) ==
    /\ L.trade_counter <= MaxTrades
    /\ Len(D.opportunities) <= MaxOpps

\* The opportunities the monitor has counted, over all sessions.
CountedWithin(T, n) ==
    T.monitor # None => T.monitor[1].metrics.total_opportunities <= n

V2Tick(pair) ==
    /\ bot = "v2" /\ phase = "running" /\ pc[pair] = "poll"
    /\ \E binance \in Fetches(pair.spot_symbol), premium \in Premiums :
       \E retry \in Retries(last_prices, pair.spot_symbol, binance) :
         LET prices == TickPrices(last_prices, pair, binance, premium, retry)
             after == IF prices = None
                      THEN [ledger |-> Ledger, detector |-> Detector]
                      ELSE v2_price_callback(Ledger, Detector, pair,
                                             prices[1].spot_price,
                                             prices[1].perp_price)
         IN  /\ WithinCaps(after.ledger, after.detector)
             /\ last_prices' = AfterDrift(
                                  AfterBinance(last_prices, pair.spot_symbol,
                                               binance),
                                  pair.perp_symbol, premium, retry)
             /\ SetLedger(after.ledger)
             /\ SetDetector(after.detector)
    /\ UNCHANGED <<bot, pairs, phase, pc, pending, initial_balance, risk, perfVars, aged, timeVars>>

\* Mutant: a missing perp price falls back to the trade's entry spot price.
RECURSIVE close_remaining_flat(_, _, _)
close_remaining_flat(L, ids, lp) ==
    IF ids = <<>> THEN L
    ELSE LET trade == L.trades[TradeIndex(L, Head(ids))]
             spot_price == IF lp.binance[trade.spot_symbol] = None
                           THEN trade.spot_price
                           ELSE lp.binance[trade.spot_symbol][1]
             perp_price == IF lp.drift[trade.perp_symbol] = None
                           THEN trade.spot_price
                           ELSE lp.drift[trade.perp_symbol][1]
         IN  close_remaining_flat(close_trade(L, Head(ids), spot_price,
                                              perp_price),
                                  Tail(ids), lp)

\* stop(): every trade still in open_trades is closed at the last known prices.
RECURSIVE close_remaining(_, _, _)
close_remaining(L, ids, lp) ==
    IF ids = <<>> THEN L
    ELSE LET trade == L.trades[TradeIndex(L, Head(ids))]
             spot_price == IF lp.binance[trade.spot_symbol] = None
                           THEN trade.spot_price
                           ELSE lp.binance[trade.spot_symbol][1]
             perp_price == IF lp.drift[trade.perp_symbol] = None
                           THEN trade.perp_price
                           ELSE lp.drift[trade.perp_symbol][1]
         IN  close_remaining(close_trade(L, Head(ids), spot_price, perp_price),
                             Tail(ids), lp)

---------------------------------------------------------------------------
\* DriftBinanceArbBot (core/main.py)

\* price_callback from the capacity check on: no await up to execute_trade.
core_open(L, opportunity) ==
    IF HasCapacity(L) /\ opportunity.potential_profit_usdt >= min_profit_usdt_core
    THEN execute_trade(L, opportunity)
    ELSE L

\* One iteration of monitor_pair. notify: the callback awaits the Discord
\* alert (a webhook is configured and should_notify allows it) before it
\* goes on to the capacity check.
CoreTick(pair) ==
    /\ bot = "core" /\ phase = "running" /\ pc[pair] = "poll"
    /\ \E binance \in Fetches(pair.spot_symbol), premium \in Premiums,
          discord \in BOOLEAN, notify \in BOOLEAN :
       \E retry \in Retries(last_prices, pair.spot_symbol, binance) :
         LET prices == TickPrices(last_prices, pair, binance, premium, retry)
             found == IF prices = None THEN None
                      ELSE check_opportunity(pair.spot_symbol, pair.perp_symbol,
                                             prices[1].spot_price,
                                             prices[1].perp_price, clock)
             D1 == IF prices = None THEN Detector
                   ELSE DetectorAfter(Detector, prices[1].spot_price,
                                      prices[1].perp_price, found)
             waits == found # None /\ discord /\ notify
             T1 == record_found(Tracking, found # None, clock)
             L1 == IF found = None \/ waits THEN Ledger
                   ELSE core_open(Ledger, found[1])
             T2 == IF prices = None \/ waits THEN T1
                   ELSE hourly_report(T1, L1.clock, discord)
         IN  /\ notify => waits
             /\ discord => \/ found # None
                            \/ /\ prices # None
                               /\ last_performance_report = 0
                               /\ perf[1].metrics.total_trades > 0
             /\ WithinCaps(L1, D1)
             /\ CountedWithin(T1, MaxOpps)
             /\ last_prices' = AfterDrift(
                                  AfterBinance(last_prices, pair.spot_symbol,
                                               binance),
                                  pair.perp_symbol, premium, retry)
             /\ SetDetector(D1)
             /\ SetLedger(L1)
             /\ pc' = [pc EXCEPT ![pair] = IF waits THEN "notify" ELSE "poll"]
             /\ pending' = [pending EXCEPT ![pair] = IF waits THEN found
                                                     ELSE None]
             /\ SetTracking(T2)
    /\ UNCHANGED <<bot, pairs, phase, initial_balance, risk, aged, timeVars>>

\* The callback resumes after the alert was sent.
CoreResume(pair) ==
    /\ bot = "core" /\ phase = "running" /\ pc[pair] = "notify"
    /\ LET L1 == core_open(Ledger, pending[pair][1])
           T1 == hourly_report(Tracking, L1.clock, TRUE)
       IN  /\ L1.trade_counter <= MaxTrades
           /\ SetLedger(L1)
           /\ SetTracking(T1)
    /\ pc' = [pc EXCEPT ![pair] = "poll"]
    /\ pending' = [pending EXCEPT ![pair] = None]
    /\ UNCHANGED <<bot, pairs, phase, last_prices, detVars, initial_balance, risk, aged, timeVars>>

---------------------------------------------------------------------------
\* Shutdown and restart.

\* stop()/shutdown() up to the await of price_monitor.stop(): run() got
\* there because start() ended, so the monitoring tasks are gone.
Shutdown ==
    /\ phase = "running"
    /\ phase' = "stopping"
    /\ pc' = [p \in pairs |-> "cancelled"]
    /\ pending' = [p \in pairs |-> None]
    /\ UNCHANGED <<bot, pairs, last_prices, detVars, ledgerVars, risk, perfVars, aged, timeVars>>

\* The rest of stop()/shutdown(), up to the final report.
final_ledger(b, L, lp) ==
    IF b = "v2" THEN close_remaining(L, Ascending(L.open_trades), lp) ELSE L

FinalReport ==
    /\ phase = "stopping"
    /\ bot = "core" =>
           shutdown_monitor(perf[1], Ledger).metrics.total_trades <= MaxRecorded
    /\ phase' = "reported"
    /\ SetLedger(final_ledger(bot, Ledger, last_prices))
    /\ SetTracking(IF bot = "core" THEN shutdown_tracking(Tracking, Ledger, clock)
                   ELSE Tracking)
    /\ UNCHANGED <<bot, pairs, pc, pending, last_prices, detVars,
                   initial_balance, risk, aged, timeVars>>

\* The process ends and the bot
\* is started again: every component is constructed anew, the ledger over
\* data/paper_trades.json.
Restart ==
    /\ phase = "reported"
    /\ phase' = "running"
    /\ pc' = [p \in pairs |-> "poll"]
    /\ pending' = [p \in pairs |-> None]
    /\ last_prices' = [binance |-> [s \in SpotSymbols |-> None],
                       drift |-> [s \in PerpSymbols |-> None]]
    /\ opportunities' = <<>>
    /\ total_opportunities' = 0
    /\ checked' = None
    /\ SetLedger(load_trades(initial_balance, disk, clock))
    /\ SetTracking(started_tracking(
                     bot, initial_balance,
                     load_trades(initial_balance, disk, clock).balance,
                     metrics_file, clock))
    /\ UNCHANGED <<bot, pairs, initial_balance, risk, aged, timeVars>>

Next ==
    \/ \E pair \in pairs : V2Tick(pair)
    \/ \E pair \in pairs : CoreTick(pair)
    \/ \E pair \in pairs : CoreResume(pair)
    \/ Shutdown
    \/ FinalReport
    \/ Restart

Spec == Init /\ [][Next]_vars

---------------------------------------------------------------------------
\* The ledger driven through its public methods by an arbitrary caller.

InitLedger ==
    /\ Init
    /\ bot = "v2"

\* Opportunities handed to execute_trade and prices handed to close_trade.
ApiEntryPremiums == {300}

ApiClosePremiums == {0, 100, 500}

ApiExecuteTrade ==
    \E s \in Spots, u \in ApiEntryPremiums :
        LET found == check_opportunity(SolPair.spot_symbol, SolPair.perp_symbol,
                                       s, PerpAt(s, u), clock)
        IN  /\ trade_counter < MaxApiTrades
            /\ found # None
            /\ SetLedger(execute_trade(Ledger, found[1]))
            /\ UNCHANGED <<orchVars, detVars, initial_balance, risk, perfVars, aged, timeVars>>

ApiCloseTrade ==
    \E id \in 0..(MaxApiTrades + 1), s \in Spots, u \in ApiClosePremiums :
        /\ SetLedger(close_trade(Ledger, id, s, PerpAt(s, u)))
        /\ UNCHANGED <<orchVars, detVars, initial_balance, risk, perfVars, aged, timeVars>>

\* A new PaperTrader is constructed over the file the last one left.
ApiLoadTrades ==
    /\ SetLedger(load_trades(initial_balance, disk, clock))
    /\ UNCHANGED <<orchVars, detVars, initial_balance, risk, perfVars, aged, timeVars>>

NextLedger == ApiExecuteTrade \/ ApiCloseTrade \/ ApiLoadTrades

SpecLedger == InitLedger /\ [][NextLedger]_vars

---------------------------------------------------------------------------
\* The detector driven through check_opportunity by an arbitrary caller.

\* Spreads of the calls, in 1/1000 percent of the spot price.
ApiSpreads == {-100, 100, 200, 250, 300, 500}

ApiCheckOpportunity ==
    \E s \in Spots, u \in ApiSpreads :
        LET D1 == DetectorAfter(Detector, s, PerpAt(s, u),
                     check_opportunity(SolPair.spot_symbol, SolPair.perp_symbol,
                                       s, PerpAt(s, u), clock))
        IN  /\ Len(D1.opportunities) <= MaxOpps
            /\ SetDetector(D1)
            /\ UNCHANGED <<orchVars, ledgerVars, risk, perfVars, aged, timeVars>>

SpecDetector == InitLedger /\ [][ApiCheckOpportunity]_vars

---------------------------------------------------------------------------
\* The ledger and the RiskManager side by side, each driven through its
\* public methods by an arbitrary caller.

\* Cap on the clock when the caller lets time pass.
MaxClock == 4

ApiProfits == {-50, 0, 50}

\* Sizes check_trade_allowed is asked about: the trade size and one above
\* max_position_size.
ApiSizes == {trade_size_usdt, 4 * trade_size_usdt}

ApiRecordTradeResult ==
    \E profit \in ApiProfits :
        /\ risk.daily_trades < max_trades_per_day
        /\ risk' = record_trade_result(risk, profit, trade_size_usdt, clock)
        /\ UNCHANGED <<orchVars, detVars, ledgerVars, perfVars, aged, timeVars>>

ApiResetDailyLimits ==
    /\ risk' = reset_daily_limits(risk)
    /\ UNCHANGED <<orchVars, detVars, ledgerVars, perfVars, aged, timeVars>>

ApiTimePasses ==
    /\ clock < MaxClock
    /\ clock' = clock + 1
    /\ UNCHANGED <<orchVars, detVars, initial_balance, balance, trades,
                   open_trades, trade_counter, disk, call, risk, perfVars, aged, timeVars>>

NextRisk ==
    \/ ApiRecordTradeResult
    \/ ApiResetDailyLimits
    \/ ApiTimePasses
    \/ ApiExecuteTrade

SpecRisk == InitLedger /\ [][NextRisk]_vars

---------------------------------------------------------------------------
\* Both orchestrators with two pairs configured: one monitor_pair task each.

\* initial_balance settings: one where the balance runs out before the
\* capacity does, one where the capacity runs out first.
PairsInitialBalances == {150000, config_initial_balance}

InitPairs ==
    /\ bot \in {"v2", "core"}
    /\ pairs = Pairs
    /\ phase = "running"
    /\ pc = [p \in pairs |-> "poll"]
    /\ pending = [p \in pairs |-> None]
    /\ last_prices = [binance |-> [s \in SpotSymbols |-> None],
                      drift |-> [s \in PerpSymbols |-> None]]
    /\ opportunities = <<>>
    /\ total_opportunities = 0
    /\ checked = None
    /\ initial_balance \in PairsInitialBalances
    /\ balance = initial_balance
    /\ trades = <<>>
    /\ open_trades = {}
    /\ trade_counter = 0
    /\ disk = None
    /\ clock = 0
    /\ call = NoCall
    /\ risk = RiskInit
    /\ IsTracking(started_tracking(bot, initial_balance, balance, None, clock))
    /\ aged = {}
    /\ sleep_left = [p \in pairs |-> 0]
    /\ since_stop = 0

NextPairs ==
    \/ \E pair \in pairs : V2Tick(pair)
    \/ \E pair \in pairs : CoreTick(pair)
    \/ \E pair \in pairs : CoreResume(pair)

\* The core callback awaits the Discord alert and is followed for the
\* balance where the capacity runs out first; the v2 callback holds no await
\* and is followed for the balance that runs out before the capacity does.
InitTasks ==
    /\ InitPairs
    /\ bot = "v2" <=> initial_balance < config_initial_balance

SpecPairs == InitTasks /\ [][NextPairs]_vars

---------------------------------------------------------------------------
\* The price callbacks called tick by tick with prices of any feed, while
\* the open trades grow older.

\* Spreads of the ticks, in 1/1000 percent: at the exit target, at the
\* simulated feed's upper end, and beyond it.
ExitPremiums == {100, 300, 500}

ExitSpot == 10000

\* DriftBinanceArbBot.price_callback with no Discord webhook configured.
core_price_callback(L, D, pair, spot_price, perp_price) ==
    LET found == check_opportunity(pair.spot_symbol, pair.perp_symbol,
                                   spot_price, perp_price, L.clock)
    IN  [ledger |-> IF found = None THEN L ELSE core_open(L, found[1]),
         detector |-> DetectorAfter(D, spot_price, perp_price, found)]

PriceCallbackAt(pair, spot_price, perp_price) ==
    /\ phase = "running"
    /\ LET after == IF bot = "v2"
                    THEN v2_price_callback(Ledger, Detector, pair,
                                           spot_price, perp_price)
                    ELSE core_price_callback(Ledger, Detector, pair,
                                             spot_price, perp_price)
       IN  /\ WithinCaps(after.ledger, after.detector)
           /\ SetLedger(after.ledger)
           /\ SetDetector(after.detector)
           /\ CountedWithin(record_found(Tracking,
                                          bot = "core"
                                          /\ after.detector.total_opportunities
                                                > total_opportunities, clock),
                             MaxOpps)
           /\ SetTracking(
                 IF bot = "core"
                 THEN hourly_report(
                        record_found(Tracking,
                                     after.detector.total_opportunities
                                         > total_opportunities, clock),
                        after.ledger.clock, FALSE)
                 ELSE Tracking)
    /\ UNCHANGED <<orchVars, initial_balance, risk, aged, timeVars>>

ApiPriceCallback ==
    \E u \in ExitPremiums :
        PriceCallbackAt(SolPair, ExitSpot, PerpAt(ExitSpot, u))

\* More than 60 seconds have passed since an open trade, and with it every
\* earlier trade, was opened.
Ages ==
    /\ \E id \in open_trades \ aged : aged' = aged \cup 1..id
    /\ UNCHANGED <<orchVars, detVars, ledgerVars, risk, perfVars, timeVars>>

NextExit == ApiPriceCallback \/ Ages

SpecExit == Init /\ [][NextExit]_vars

---------------------------------------------------------------------------
\* The core bot started over the ledger file an earlier run of the v2 bot
\* left in data/: both construct their PaperTrader over the same path.

EmptyLedger == load_trades(config_initial_balance, None, 0)

\* The file after a v2 run that opened one trade and closed it, at the exit
\* target or by force at the entry prices; None: no earlier run.
V2Files ==
    {None} \cup
    { close_trade(
        execute_trade(EmptyLedger,
                      check_opportunity(SolPair.spot_symbol,
                                        SolPair.perp_symbol, ExitSpot,
                                        PerpAt(ExitSpot, 300), 0)[1]),
        1, ExitSpot, PerpAt(ExitSpot, u)).disk : u \in {100, 300} }

InitCore ==
    \E file \in V2Files :
        LET L == load_trades(config_initial_balance, file,
                             IF file = None THEN 0 ELSE 2)
        IN  /\ bot = "core"
            /\ pairs = {SolPair}
            /\ phase = "running"
            /\ pc = [p \in pairs |-> "poll"]
            /\ pending = [p \in pairs |-> None]
            /\ last_prices = [binance |-> [s \in SpotSymbols |-> None],
                              drift |-> [s \in PerpSymbols |-> None]]
            /\ opportunities = <<>>
            /\ total_opportunities = 0
            /\ checked = None
            /\ initial_balance = config_initial_balance
            /\ balance = L.balance
            /\ trades = L.trades
            /\ open_trades = L.open_trades
            /\ trade_counter = L.trade_counter
            /\ disk = L.disk
            /\ clock = L.clock
            /\ call = L.call
            /\ risk = RiskInit
            /\ IsTracking(started_tracking("core", initial_balance, L.balance,
                                           None, L.clock))
            /\ aged = {}
            /\ sleep_left = [p \in pairs |-> 0]
            /\ since_stop = 0

NextCore ==
    \/ \E pair \in pairs : CoreTick(pair)
    \/ \E pair \in pairs : CoreResume(pair)
    \/ Shutdown
    \/ FinalReport
    \/ Restart

SpecCore == InitCore /\ [][NextCore]_vars

---------------------------------------------------------------------------
\* A PerformanceMonitor driven through its public methods by an arbitrary
\* caller.

\* PerformanceMonitor.__init__: initial_balance defaults to 10000 USDT.
default_initial_balance == 1000000

\* Cap on len(PerformanceMonitor.balance_history).
MaxHistory == 3

\* Balances passed to update_balance: 9800, 10000 and 10500 USDT.
ApiBalances == {980000, 1000000, 1050000}

\* Trade results passed to record_trade: net profit and total fees.
ApiResults == {[net_profit |-> -50, fees |-> 200],
               [net_profit |-> 30, fees |-> 120],
               [net_profit |-> 50, fees |-> 100]}

InitPerf ==
    /\ bot = "core"
    /\ pairs = {SolPair}
    /\ phase = "running"
    /\ pc = [p \in pairs |-> "poll"]
    /\ pending = [p \in pairs |-> None]
    /\ last_prices = [binance |-> [s \in SpotSymbols |-> None],
                      drift |-> [s \in PerpSymbols |-> None]]
    /\ opportunities = <<>>
    /\ total_opportunities = 0
    /\ checked = None
    /\ initial_balance = config_initial_balance
    /\ balance = initial_balance
    /\ trades = <<>>
    /\ open_trades = {}
    /\ trade_counter = 0
    /\ disk = None
    /\ clock = 0
    /\ call = NoCall
    /\ risk = RiskInit
    /\ perf = Some(PerformanceMonitor(default_initial_balance, None, clock))
    /\ metrics_file = None
    /\ last_performance_report = 0
    /\ report = None
    /\ aged = {}
    /\ sleep_left = [p \in pairs |-> 0]
    /\ since_stop = 0

ApiUpdateBalance ==
    \E new_balance \in ApiBalances :
        /\ Len(perf[1].balance_history) < MaxHistory
        /\ perf' = Some(update_balance(perf[1], new_balance))
        /\ UNCHANGED <<orchVars, detVars, ledgerVars, risk, metrics_file,
                       last_performance_report, report, aged, timeVars>>

ApiRecordTrade ==
    \E r \in ApiResults :
        /\ perf[1].metrics.total_trades < MaxRecorded
        /\ perf' = Some(record_trade(perf[1], r.net_profit, r.fees))
        /\ metrics_file' = save_metrics(record_trade(perf[1], r.net_profit,
                                                     r.fees))
        /\ UNCHANGED <<orchVars, detVars, ledgerVars, risk,
                       last_performance_report, report, aged, timeVars>>

NextPerf == ApiUpdateBalance \/ ApiRecordTrade

SpecPerf == InitPerf /\ [][NextPerf]_vars

---------------------------------------------------------------------------
\* The same caller also asks for reports as time passes.

ApiReport ==
    LET R == get_profitability_report(perf[1], clock)
    IN  /\ perf' = Some(R.monitor)
        /\ report' = Some(R.report)
        /\ UNCHANGED <<orchVars, detVars, ledgerVars, risk, metrics_file,
                       last_performance_report, aged, timeVars>>

NextReport ==
    \/ ApiUpdateBalance
    \/ ApiRecordTrade
    \/ ApiTimePasses
    \/ ApiReport

SpecReport == InitPerf /\ [][NextReport]_vars

---------------------------------------------------------------------------
\* A caller that records trades and balances and, at any time, constructs
\* the monitor anew over the metrics file.

ApiReloadMetrics ==
    /\ perf' = Some(PerformanceMonitor(default_initial_balance, metrics_file,
                                       clock))
    /\ UNCHANGED <<orchVars, detVars, ledgerVars, risk, metrics_file,
                   last_performance_report, report, aged, timeVars>>

NextReload ==
    \/ ApiUpdateBalance
    \/ ApiRecordTrade
    \/ ApiReloadMetrics

SpecReload == InitPerf /\ [][NextReload]_vars

---------------------------------------------------------------------------
\* A monitor that records one trade or none, and is then asked for snapshot
\* after snapshot.

\* Cap on len(PerformanceMonitor.hourly_snapshots).
MaxSnapshots == 169

ApiRecordFirst ==
    \E r \in ApiResults :
        /\ perf[1].metrics.total_trades = 0
        /\ perf[1].hourly_snapshots = <<>>
        /\ perf' = Some(record_trade(perf[1], r.net_profit, r.fees))
        /\ metrics_file' = save_metrics(record_trade(perf[1], r.net_profit,
                                                     r.fees))
        /\ UNCHANGED <<orchVars, detVars, ledgerVars, risk,
                       last_performance_report, report, aged, timeVars>>

ApiTakeSnapshot ==
    /\ Len(perf[1].hourly_snapshots) < MaxSnapshots
    /\ perf' = Some(take_hourly_snapshot(perf[1], clock))
    /\ metrics_file' = save_metrics(take_hourly_snapshot(perf[1], clock))
    /\ UNCHANGED <<orchVars, detVars, ledgerVars, risk,
                   last_performance_report, report, aged, timeVars>>

NextSnapshots == ApiRecordFirst \/ ApiTakeSnapshot

SpecSnapshots == InitPerf /\ [][NextSnapshots]_vars

---------------------------------------------------------------------------
\* The v2 bot stopped while its ledger holds trades a caller opened through
\* execute_trade, whether or not the monitoring task has stored prices.

NextStop ==
    \/ ApiExecuteTrade
    \/ \E pair \in pairs : V2Tick(pair)
    \/ Shutdown
    \/ FinalReport

SpecStop == InitLedger /\ [][NextStop]_vars

---------------------------------------------------------------------------
\* PriceMonitor.start with two pairs and either bot's callback, its tasks
\* followed through the loop test, the fetches and the callback, and the
\* sleep, with PriceMonitor.stop called while they run.  The fetches and the
\* callback take no time.

\* asyncio.sleep(2) at the end of an iteration, in seconds.
poll_interval == 2

\* asyncio.sleep(10) after an exception, in seconds.
error_backoff == 10

\* Where a callback raises: not at all, before it has done anything, or
\* when it has done everything.
Raises == {"no", "before", "after"}

\* Cap on PaperTrader.trade_counter and on len(opportunities) while the
\* tasks are followed step by step.
MaxMonitorTrades == 1

\* What the ticker answers while the tasks are followed step by step.
MonitorFetches == {None, Some(10000)}

InitMonitor ==
    /\ InitPairs
    /\ initial_balance = config_initial_balance

\* while self.running
MonitorLoopTest(pair) ==
    /\ pc[pair] = "poll"
    /\ pc' = [pc EXCEPT ![pair] = IF phase = "running" THEN "fetch"
                                  ELSE "done"]
    /\ UNCHANGED <<bot, pairs, phase, pending, last_prices, detVars,
                   ledgerVars, risk, perfVars, aged, timeVars>>

\* The body of the loop: both fetches, the callback if both prices are
\* there, and the start of the sleep the iteration ends in.
MonitorFetchWith(pair, binance, premium, retry, raised) ==
    /\ pc[pair] = "fetch"
    /\ LET prices == TickPrices(last_prices, pair, binance, premium, retry)
           before == [ledger |-> Ledger, detector |-> Detector]
           after == IF prices = None \/ raised = "before" THEN before
                    ELSE IF bot = "v2"
                    THEN v2_price_callback(Ledger, Detector, pair,
                                           prices[1].spot_price,
                                           prices[1].perp_price)
                    ELSE core_price_callback(Ledger, Detector, pair,
                                             prices[1].spot_price,
                                             prices[1].perp_price)
           failed == prices # None /\ raised # "no"
       IN  /\ prices = None => raised = "no"
           /\ after.ledger.trade_counter <= MaxMonitorTrades
           /\ Len(after.detector.opportunities) <= MaxMonitorTrades
           /\ last_prices' = AfterDrift(
                                AfterBinance(last_prices, pair.spot_symbol,
                                             binance),
                                pair.perp_symbol, premium, retry)
           /\ SetLedger(after.ledger)
           /\ SetDetector(after.detector)
           /\ SetTracking(
                 IF bot = "core" /\ prices # None /\ raised # "before"
                 THEN hourly_report(
                        record_found(Tracking,
                                     after.detector.total_opportunities
                                         > total_opportunities, clock),
                        after.ledger.clock, FALSE)
                 ELSE Tracking)
           /\ pc' = [pc EXCEPT ![pair] = IF failed THEN "backoff" ELSE "sleep"]
           /\ sleep_left' = [sleep_left EXCEPT ![pair] =
                                IF failed THEN error_backoff
                                ELSE poll_interval]
    /\ UNCHANGED <<bot, pairs, phase, pending, initial_balance, risk, aged,
                   since_stop>>

MonitorFetch(pair) ==
    \E binance \in MonitorFetches, premium \in Premiums, raised \in Raises :
        \E retry \in Retries(last_prices, pair.spot_symbol, binance)
                         \cap MonitorFetches :
            MonitorFetchWith(pair, binance, premium, retry, raised)

\* The sleep is over: back to the loop test.
MonitorWake(pair) ==
    /\ pc[pair] \in {"sleep", "backoff"}
    /\ sleep_left[pair] = 0
    /\ pc' = [pc EXCEPT ![pair] = "poll"]
    /\ UNCHANGED <<bot, pairs, phase, pending, last_prices, detVars,
                   ledgerVars, risk, perfVars, aged, timeVars>>

\* A second passes while every task that still runs sleeps.
Elapse ==
    /\ \E p \in pairs : pc[p] # "done"
    /\ \A p \in pairs :
         \/ pc[p] = "done"
         \/ pc[p] \in {"sleep", "backoff"} /\ sleep_left[p] > 0
    /\ sleep_left' = [p \in pairs |-> IF pc[p] = "done" THEN sleep_left[p]
                                      ELSE sleep_left[p] - 1]
    /\ since_stop' = IF phase = "stopping" THEN since_stop + 1 ELSE since_stop
    /\ UNCHANGED <<orchVars, detVars, ledgerVars, risk, perfVars, aged>>

\* PriceMonitor.stop: the flag is cleared and the session closed.
ApiStop ==
    /\ phase = "running"
    /\ phase' = "stopping"
    /\ UNCHANGED <<bot, pairs, pc, pending, last_prices, detVars, ledgerVars,
                   risk, perfVars, aged, timeVars>>

NextMonitor ==
    \/ \E pair \in pairs : MonitorLoopTest(pair)
    \/ \E pair \in pairs : MonitorFetch(pair)
    \/ \E pair \in pairs : MonitorWake(pair)
    \/ Elapse
    \/ ApiStop

SpecMonitor == InitMonitor /\ [][NextMonitor]_vars

\* The event loop runs every task that is ready, and time passes.
SpecMonitorFair ==
    /\ SpecMonitor
    /\ \A pair \in Pairs :
         /\ WF_vars(MonitorLoopTest(pair))
         /\ WF_vars(MonitorFetch(pair))
         /\ WF_vars(MonitorWake(pair))
    /\ WF_vars(Elapse)

---------------------------------------------------------------------------
\* The ledger driven through execute_trade and close_trade while the file
\* system lets some of the saves fail.

\* How a save_trades call ends: the file is written; makedirs or open
\* raises and the file stays as it was; json.dump raises and leaves the
\* opened file cut off.  save_trades catches and logs either exception.
SaveOutcomes == {"saved", "unwritten", "truncated"}

\* Mutant: a failed save takes the trade back out of memory.
with_save_rollback(L, L1, outcome) ==
    IF outcome = "saved" THEN L1
    ELSE [L EXCEPT !.call = L1.call]

\* L1: the ledger after a method of L that saves unless it returns early.
with_save(L, L1, outcome) ==
    IF outcome = "saved" \/ L1.trades = L.trades THEN L1
    ELSE [L1 EXCEPT !.disk = IF outcome = "unwritten" THEN L.disk
                             ELSE Truncated]

ApiExecuteTradeSaving ==
    \E u \in ApiEntryPremiums, outcome \in SaveOutcomes :
        LET found == check_opportunity(SolPair.spot_symbol, SolPair.perp_symbol,
                                       ExitSpot, PerpAt(ExitSpot, u), clock)
        IN  /\ trade_counter < MaxApiTrades
            /\ found # None
            /\ SetLedger(with_save(Ledger, execute_trade(Ledger, found[1]),
                                   outcome))
            /\ UNCHANGED <<orchVars, detVars, initial_balance, risk, perfVars,
                           aged, timeVars>>

ApiCloseTradeSaving ==
    \E id \in 1..MaxApiTrades, u \in ApiClosePremiums,
       outcome \in SaveOutcomes :
        /\ SetLedger(with_save(Ledger,
                               close_trade(Ledger, id, ExitSpot,
                                           PerpAt(ExitSpot, u)),
                               outcome))
        /\ UNCHANGED <<orchVars, detVars, initial_balance, risk, perfVars,
                       aged, timeVars>>

NextPersist == ApiExecuteTradeSaving \/ ApiCloseTradeSaving

SpecPersist == InitLedger /\ [][NextPersist]_vars

---------------------------------------------------------------------------
\* The detector checked many times over by one caller: how its history
\* grows.

\* get_summary reports opportunities[-5:], the only length the detector ever
\* applies to its history.
recent_window == 5

\* Cap on len(ArbitrageDetector.opportunities) here.
MaxChecked == 6

\* A spread below the threshold and one above it.
HistorySpreads == {100, 300}

ApiCheckAgain ==
    \E s \in Spots, u \in HistorySpreads :
        LET D1 == DetectorAfter(Detector, s, PerpAt(s, u),
                     check_opportunity(SolPair.spot_symbol, SolPair.perp_symbol,
                                       s, PerpAt(s, u), clock))
        IN  /\ Len(D1.opportunities) <= MaxChecked
            /\ SetDetector(D1)
            /\ UNCHANGED <<orchVars, ledgerVars, risk, perfVars, aged, timeVars>>

SpecHistory == InitLedger /\ [][ApiCheckAgain]_vars

---------------------------------------------------------------------------
\* Properties.

RECURSIVE SumOpenSizes(_, _)
SumOpenSizes(T, S) ==
    IF S = {} THEN 0
    ELSE LET i == CHOOSE x \in S : TRUE
         IN  T[i].trade_size_usdt + SumOpenSizes(T, S \ {i})

RECURSIVE SumActualProfit(_, _)
SumActualProfit(T, S) ==
    IF S = {} THEN 0
    ELSE LET i == CHOOSE x \in S : TRUE
         IN  T[i].actual_profit[1] + SumActualProfit(T, S \ {i})

\* C1: the balance plus the sizes of all OPEN trades equals the initial
\* balance plus the actual profit of all CLOSED trades, after every open,
\* close, forced close at shutdown and reload.
C1_BalanceInvariant ==
    balance + SumOpenSizes(trades, OpenStatus(trades))
        = initial_balance + SumActualProfit(trades, ClosedStatus(trades))

\* A shutdown has force-closed a trade away from the exit target, at a loss.
C1_Witness ==
    /\ phase = "reported"
    /\ \E i \in ClosedStatus(trades) :
         /\ calculate_spread(trades[i].close_spot_price[1],
                             trades[i].close_perp_price[1]) > 100
         /\ trades[i].actual_profit[1] < 0
    /\ \E i \in ClosedStatus(trades) : trades[i].actual_profit[1] > 0

\* C2: at most max_open_trades trades have status OPEN, in every reachable
\* state, restarts included.
C2_OpenWithinMax ==
    Cardinality(OpenStatus(trades)) <= max_open_trades

\* What open is to report in the state before the request: the first of
\* capacity, balance and risk that fails.
ExpectedOpenError ==
    IF Cardinality(OpenStatus(trades)) >= max_open_trades
    THEN "CapacityExceeded"
    ELSE IF balance < trade_size_usdt
    THEN "InsufficientBalance"
    ELSE IF ~check_trade_allowed(risk, trade_size_usdt, clock).allowed
    THEN "RiskBlocked"
    ELSE ""

OpenOutcome(c) ==
    IF c.ret # None THEN ""
    ELSE IF c.error = "Insufficient balance" THEN "InsufficientBalance"
    ELSE "Unknown"

\* C3: every open request reports the first failing precondition in the
\* order capacity, balance, risk, and succeeds only when all three pass.
C3_OpenPreconditions ==
    [][ (call'.op = "execute_trade" /\ call' # call)
            => OpenOutcome(call') = ExpectedOpenError ]_vars

IsOpenId(T, id) == \E i \in OpenStatus(T) : T[i].id = id

\* C4: a close of an id that is not OPEN returns None and leaves the balance,
\* the trades, the counters, the file and the risk state as they were.
C4_CloseNotOpenIsNoop ==
    [][ (call'.op = "close_trade" /\ ~IsOpenId(trades, call'.trade_id))
            => /\ call'.ret = None
               /\ UNCHANGED <<balance, trades, open_trades, trade_counter,
                              disk, risk, perfVars>> ]_vars

\* The last call was a second close of a trade that is already CLOSED.
C4_Witness ==
    /\ call.op = "close_trade"
    /\ call.ret = None
    /\ \E i \in ClosedStatus(trades) : trades[i].id = call.trade_id

\* C5: the profit a close credits equals the unrealized P&L the exit
\* evaluation computes for that trade at the same prices.
C5_CloseMatchesExitPnl ==
    \A i \in ClosedStatus(trades) :
        trades[i].actual_profit[1]
            = unrealized_pnl(trades[i], trades[i].close_spot_price[1],
                             trades[i].close_perp_price[1])

\* C6: check_opportunity returns an opportunity exactly when the spread is
\* strictly above min spread plus fees and the expected profit is positive;
\* the opportunity carries that spread and profit.  Spot 100.00, perp 100.50
\* gives an expected profit of 3.50.
C6_OpportunityIff ==
    checked # None =>
        LET c == checked[1]
            spread == ((c.perp_price - c.spot_price) * 100000) \div c.spot_price
            expected == ((spread - total_fees_percent) * trade_size_usdt)
                            \div 100000
        IN  /\ (c.ret # None) <=>
                   (spread > min_spread_percent + total_fees_percent
                    /\ expected > 0)
            /\ c.ret # None =>
                   /\ c.ret[1].spread_percent = spread
                   /\ c.ret[1].potential_profit_usdt = expected
                   /\ c.ret[1].trade_size_usdt = trade_size_usdt
                   /\ Len(opportunities) > 0
                   /\ opportunities[Len(opportunities)] = c.ret[1]
            /\ (c.spot_price = 10000 /\ c.perp_price = 10050) =>
                   (c.ret # None /\ c.ret[1].potential_profit_usdt = 350)

\* The call with spot 100.00 and perp 100.50 has returned its opportunity.
C6_Witness ==
    /\ checked # None
    /\ checked[1].spot_price = 10000
    /\ checked[1].perp_price = 10050
    /\ checked[1].ret # None

\* The most recent closes before stamp ts that were all losses.
RECURSIVE LosingStreak(_, _)
LosingStreak(T, S) ==
    IF S = {} THEN 0
    ELSE LET m == CHOOSE x \in S : \A y \in S :
                      T[y].close_timestamp[1] <= T[x].close_timestamp[1]
         IN  IF T[m].actual_profit[1] < 0
             THEN 1 + LosingStreak(T, S \ {m})
             ELSE 0

ClosedBefore(T, ts) ==
    { i \in ClosedStatus(T) : T[i].close_timestamp[1] < ts }

LastCloseBefore(T, ts) ==
    LET S == ClosedBefore(T, ts)
    IN  T[CHOOSE x \in S : \A y \in S :
            T[y].close_timestamp[1] <= T[x].close_timestamp[1]].close_timestamp[1]

\* C7: no trade is opened while the closes before it end in
\* cooldown_after_losses consecutive losses and less than cooldown_duration
\* has passed since the last of them.
C7_CooldownBlocksOpen ==
    \A i \in 1..Len(trades) :
        ~ /\ LosingStreak(trades, ClosedBefore(trades, trades[i].timestamp))
                >= cooldown_after_losses
          /\ trades[i].timestamp
                < LastCloseBefore(trades, trades[i].timestamp) + cooldown_duration

\* C8: when the final report runs, no trade has status OPEN.
C8_NoOpenAtFinalReport ==
    phase = "reported" => OpenStatus(trades) = {}

\* C9: every open passed the capacity and the balance check on the state it
\* changed, and every close the tasks make finds its trade: no check is
\* separated from its mutation by another task's step.
C9_ChecksAreAtomic ==
    /\ [](call.error # "not found in open trades")
    /\ [][ trade_counter' > trade_counter
             => /\ balance' >= 0
                /\ Cardinality(open_trades') <= max_open_trades ]_vars

\* A core callback is suspended with its opportunity while the other task
\* has used up the capacity.
C9_Witness ==
    /\ bot = "core"
    /\ Cardinality(open_trades) = max_open_trades
    /\ \E p \in pairs : pc[p] = "notify" /\ pending[p] # None

\* C10: a CLOSED trade has all four close-side fields, an OPEN trade none.
C10_CloseFields ==
    \A i \in 1..Len(trades) :
        LET tr == trades[i]
        IN  /\ tr.status \in {"OPEN", "CLOSED"}
            /\ tr.status = "CLOSED" =>
                   /\ tr.close_spot_price # None
                   /\ tr.close_perp_price # None
                   /\ tr.actual_profit # None
                   /\ tr.close_timestamp # None
            /\ tr.status = "OPEN" =>
                   /\ tr.close_spot_price = None
                   /\ tr.close_perp_price = None
                   /\ tr.actual_profit = None
                   /\ tr.close_timestamp = None

\* The ledger holds a CLOSED trade and an OPEN trade opened after it.
C10_Witness ==
    /\ call.op = "execute_trade"
    /\ call.ret # None
    /\ ClosedStatus(trades) # {}
    /\ OpenStatus(trades) # {}

EntrySide(tr) ==
    <<tr.id, tr.timestamp, tr.spot_symbol, tr.perp_symbol, tr.spot_price,
      tr.perp_price, tr.trade_size_usdt, tr.spread_percent, tr.expected_profit>>

\* C11: no step removes a trade or changes a trade's entry side, and the
\* only change a step makes to a trade is to take it from OPEN to CLOSED.
C11_OnlyOpenToClosed ==
    [][ /\ Len(trades') >= Len(trades)
        /\ \A i \in 1..Len(trades) :
             /\ EntrySide(trades'[i]) = EntrySide(trades[i])
             /\ trades'[i] # trades[i] =>
                    (trades[i].status = "OPEN" /\ trades'[i].status = "CLOSED")
      ]_vars

\* A CLOSED trade has been carried through a restart.
C11_Witness ==
    /\ call.op = "load_trades"
    /\ ClosedStatus(trades) # {}

\* C12: a step that closes trades has the RiskManager and the
\* PerformanceMonitor record one more trade for each of them.
C12_CloseReports ==
    [][ LET n == Cardinality(ClosedStatus(trades'))
                    - Cardinality(ClosedStatus(trades))
        IN  n > 0 =>
              /\ risk'.daily_trades = risk.daily_trades + n
              /\ perf # None /\ perf' # None
              /\ perf'[1].metrics.total_trades
                     = perf[1].metrics.total_trades + n
      ]_vars

\* The four exit triggers for the trade with this id at this spread.
TriggerHolds(id, current_spread) ==
    LET tr == trades[CHOOSE i \in 1..Len(trades) : trades[i].id = id]
        pnl == ((tr.spread_percent - current_spread) * tr.trade_size_usdt)
                   \div 100000 - (tr.trade_size_usdt * 15) \div 10000
    IN  \/ current_spread <= 100
        \/ pnl < -200
        \/ pnl > 0 /\ 2 * current_spread < tr.spread_percent
        \/ id \in aged

OpenTrade(id) == trades[CHOOSE i \in 1..Len(trades) : trades[i].id = id]

\* C13: for an open trade, exit evaluation says should_exit exactly when one
\* of the four triggers holds: spread at or below the target, unrealized
\* loss beyond the stop, take profit, or held for more than 60 seconds.
C13_ExitIffTrigger ==
    bot = "v2" =>
      \A id \in open_trades, u \in ExitPremiums :
          exit_decision(OpenTrade(id), ExitSpot,
                        PerpAt(ExitSpot, u)).should_exit
              <=> TriggerHolds(id, u)

\* C14: a tick closes every open trade of its symbol that has been held for
\* more than 60 seconds, whatever the prices.
C14_AgedTradeCloses ==
    [][ \A u \in ExitPremiums :
          (bot = "v2"
           /\ PriceCallbackAt(SolPair, ExitSpot, PerpAt(ExitSpot, u)))
              => (open_trades \cap aged) \cap open_trades' = {} ]_vars

\* C15: when the spread is at or below the target, the reason given for the
\* exit is the target one.
C15_TargetReason ==
    bot = "v2" =>
      \A id \in open_trades, u \in ExitPremiums :
          u <= 100 =>
              exit_decision(OpenTrade(id), ExitSpot,
                            PerpAt(ExitSpot, u)).reason
                  = "Target spread reached"

\* C16: a tick that starts with the ledger at max_open_trades, on which a
\* price trigger closes an open trade and the prices are an opportunity that
\* passes the filters, opens a trade.
C16_ExitBeforeOpen ==
    [][ \A u \in ExitPremiums :
          LET found == check_opportunity(SolPair.spot_symbol,
                                         SolPair.perp_symbol, ExitSpot,
                                         PerpAt(ExitSpot, u), clock)
          IN  (/\ PriceCallbackAt(SolPair, ExitSpot, PerpAt(ExitSpot, u))
               /\ Cardinality(open_trades) = max_open_trades
               /\ \E id \in open_trades \ aged : TriggerHolds(id, u)
               /\ found # None
               /\ should_take_trade(found[1])
               /\ found[1].potential_profit_usdt >= min_profit_usdt_core)
                  => trade_counter' = trade_counter + 1 ]_vars

\* C17: check_trade_allowed blocks exactly when the cooldown runs, the daily
\* trade count has reached its maximum, the absolute daily P&L has reached
\* the loss limit, or the recorded exposure plus the size exceeds
\* max_position_size.
C17_AllowedIff ==
    \A size \in ApiSizes :
        LET blocked ==
              \/ risk.cooldown_until # None /\ clock < risk.cooldown_until[1]
              \/ risk.daily_trades >= max_trades_per_day
              \/ (IF risk.daily_loss < 0 THEN -risk.daily_loss
                  ELSE risk.daily_loss) >= max_drawdown
              \/ SumSizes(risk.open_positions) + size > max_position_size
        IN  check_trade_allowed(risk, size, clock).allowed <=> ~blocked

\* Only the cooldown blocks: two losses were recorded, the daily limits were
\* reset, and the cooldown has not run out.
C17_Witness ==
    /\ risk.cooldown_until # None
    /\ clock < risk.cooldown_until[1]
    /\ risk.daily_trades = 0
    /\ risk.daily_loss = 0
    /\ ~check_trade_allowed(risk, trade_size_usdt, clock).allowed

\* C18: the ids of the trades are strictly increasing in the order of
\* opening, and none is above the counter the next id is taken from.
C18_IdsIncrease ==
    /\ \A i \in 1..Len(trades) : trades[i].id <= trade_counter
    /\ \A i, j \in 1..Len(trades) : i < j => trades[i].id < trades[j].id

\* A trade has been opened after a reload: an earlier trade is still OPEN in
\* the list but no longer in open_trades.
C18_Witness ==
    \E i, j \in OpenStatus(trades) :
        /\ i < j
        /\ trades[i].id \notin open_trades
        /\ trades[j].id \in open_trades

\* C19: the monitor's peak_balance never falls during a session and is at
\* least the ledger's balance in every state, so at least every value the
\* balance has taken in the session.
C19_PeakAboveBalance ==
    /\ [](perf # None => perf[1].peak_balance >= balance)
    /\ [][ (perf # None /\ perf' # None /\ phase # "reported")
              => perf'[1].peak_balance >= perf[1].peak_balance ]_vars

\* The session started above the initial balance, the peak followed, and
\* opens have since taken the balance below it.
C19_Witness ==
    /\ perf # None
    /\ perf[1].peak_balance > initial_balance
    /\ balance < perf[1].peak_balance
    /\ open_trades # {}

\* C20: a call of update_balance(new) leaves peak_balance = max(old peak,
\* new), current_drawdown = (peak - new)/peak * 100, max_drawdown = max(old
\* max_drawdown, current_drawdown) and roi_percentage = (new - initial) /
\* initial * 100.
C20_UpdateBalance ==
    [][ (perf # None /\ perf' # None
         /\ Len(perf'[1].balance_history) = Len(perf[1].balance_history) + 1)
          => LET P == perf[1]
                 Q == perf'[1]
                 new == Q.balance_history[Len(Q.balance_history)]
                 peak == IF new > P.peak_balance THEN new ELSE P.peak_balance
             IN  /\ Q.peak_balance = peak
                 /\ Q.metrics.current_drawdown.num * peak
                        = (peak - new) * 100 * Q.metrics.current_drawdown.den
                 /\ RatLeq(P.metrics.max_drawdown, Q.metrics.max_drawdown)
                 /\ RatLeq(Q.metrics.current_drawdown, Q.metrics.max_drawdown)
                 /\ Q.metrics.max_drawdown
                        \in {P.metrics.max_drawdown, Q.metrics.current_drawdown}
                 /\ Q.metrics.roi_percentage.num * P.initial_balance
                        = (new - P.initial_balance) * 100
                              * Q.metrics.roi_percentage.den
      ]_vars

\* C21: after a record_trade call, profit_factor is the sum of the winning
\* net profits over the sum of the absolute losing ones, or the sum of the
\* winning ones when nothing was lost.  Stated for the first two results a
\* new monitor records: after the first, largest_win and largest_loss are
\* those two sums.
C21_ProfitFactor ==
    [][ (perf # None /\ perf' # None
         /\ perf[1].metrics.total_trades <= 1
         /\ perf[1].metrics.total_trades
                = perf[1].metrics.profitable_trades
                      + perf[1].metrics.losing_trades
         /\ perf'[1].metrics.total_trades = perf[1].metrics.total_trades + 1)
          => LET m == perf[1].metrics
                 net_profit == perf'[1].metrics.total_net_profit
                                   - m.total_net_profit
                 wins == m.largest_win
                             + (IF net_profit > 0 THEN net_profit ELSE 0)
                 losses == -m.largest_loss
                               + (IF net_profit > 0 THEN 0 ELSE -net_profit)
                 pf == perf'[1].metrics.profit_factor
             IN  IF losses > 0
                 THEN pf.num * losses = wins * pf.den
                 ELSE pf.num = wins * pf.den
      ]_vars

C23_RecordTradeResult ==
    [][ risk'.daily_trades = risk.daily_trades + 1
          => LET profit == risk'.daily_loss - risk.daily_loss
             IN  /\ profit \in ApiProfits
                 /\ risk'.open_positions = risk.open_positions
                 /\ profit < 0 =>
                      /\ risk'.consecutive_losses = risk.consecutive_losses + 1
                      /\ risk'.cooldown_until =
                             IF risk'.consecutive_losses >= cooldown_after_losses
                             THEN Some(clock + cooldown_duration)
                             ELSE risk.cooldown_until
                 /\ profit >= 0 =>
                      /\ risk'.consecutive_losses = 0
                      /\ risk'.cooldown_until = risk.cooldown_until
      ]_vars

\* Two losses started a cooldown and a result of zero was recorded after
\* them, while the cooldown runs.
C23_Witness ==
    /\ risk.daily_trades = 3
    /\ risk.daily_loss = -100
    /\ risk.consecutive_losses = 0
    /\ risk.cooldown_until # None
    /\ clock < risk.cooldown_until[1]

\* C24: the exposure check_trade_allowed adds the size to is the sum of the
\* sizes of the trades OPEN in the ledger.
C24_ExposureIsOpenSizes ==
    SumSizes(risk.open_positions) = SumOpenSizes(trades, OpenStatus(trades))

\* C25: the forced close at shutdown closes a trade for whose symbol no
\* price was stored at its entry prices on both legs, with an actual profit
\* of minus the round-trip fee on its size, and a trade whose prices were
\* stored at those on both legs; the balance equation holds afterwards.
C25_FallbackToEntryPrices ==
    /\ [](phase = "reported" =>
            balance + SumOpenSizes(trades, OpenStatus(trades))
                = initial_balance
                      + SumActualProfit(trades, ClosedStatus(trades)))
    /\ [][ (bot = "v2" /\ phase = "stopping" /\ phase' = "reported") =>
             \A i \in 1..Len(trades) :
                 trades[i].id \in open_trades =>
                   LET tr == trades[i]
                       spot == last_prices.binance[tr.spot_symbol]
                       perp == last_prices.drift[tr.perp_symbol]
                   IN  /\ trades'[i].status = "CLOSED"
                       /\ IF spot = None \/ perp = None
                          THEN /\ trades'[i].close_spot_price[1] = tr.spot_price
                               /\ trades'[i].close_perp_price[1] = tr.perp_price
                               /\ trades'[i].actual_profit[1]
                                      = -((tr.trade_size_usdt * 15) \div 10000)
                          ELSE /\ trades'[i].close_spot_price = spot
                               /\ trades'[i].close_perp_price = perp
       ]_vars

\* The bot was stopped with two trades in the ledger and no price stored:
\* both were closed at their entry prices, at the cost of the fee.
C25_Witness ==
    /\ phase = "reported"
    /\ last_prices.binance["SOLUSDT"] = None
    /\ last_prices.drift["SOLPERP"] = None
    /\ Len(trades) = 2
    /\ \A i \in 1..Len(trades) :
         /\ trades[i].status = "CLOSED"
         /\ trades[i].close_spot_price[1] = trades[i].spot_price
         /\ trades[i].close_perp_price[1] = trades[i].perp_price
         /\ trades[i].actual_profit[1] = -150

\* C26: the detector is run on a tick only when, after the tick's exits,
\* fewer than max_open_trades trades are open, and every trade of the ledger
\* was opened from an opportunity that passed the orchestrator's filter: an
\* expected profit of at least the configured minimum and, where a spread
\* margin is configured, a spread above the base threshold by that margin.
C26_DetectorOnlyWithCapacity ==
    /\ [](\A i \in 1..Len(trades) :
            /\ trades[i].expected_profit
                   >= (IF bot = "v2" THEN min_profit_usdt_v2
                       ELSE min_profit_usdt_core)
            /\ bot = "v2" =>
                   trades[i].spread_percent > min_spread_percent + 200)
    /\ [][ total_opportunities' > total_opportunities
             => Cardinality(open_trades') - (trade_counter' - trade_counter)
                    < max_open_trades ]_vars

AllTasksDone == \A p \in pairs : pc[p] = "done"

\* C27: once PriceMonitor.stop has cleared the flag, no task starts another
\* iteration, every task has left its loop one poll interval later, also a
\* task that is backing off after an error, and all tasks terminate.
C27_TasksStopWithinInterval ==
    /\ [][ phase = "stopping" =>
             \A p \in pairs : pc'[p] = "fetch" => pc[p] = "fetch" ]_vars
    /\ [](since_stop > poll_interval => AllTasksDone)
    /\ (phase = "stopping") ~> AllTasksDone

\* C28: an iteration whose ticker request fails calls no callback: the
\* ledger, the detector and the RiskManager stay as they are, the task goes
\* to sleep for the poll interval and the other tasks are where they were;
\* a task whose callback raises backs off and does not end; a task only
\* ends when the flag was cleared, and until then it goes round the loop.
C28_UnavailableTickSkipped ==
    /\ [][ \A pair \in pairs, premium \in Premiums, retry \in MonitorFetches :
             MonitorFetchWith(pair, None, premium, retry, "no")
                 => /\ UNCHANGED <<detVars, ledgerVars, risk, perfVars>>
                    /\ pc'[pair] = "sleep"
                    /\ sleep_left'[pair] = poll_interval
                    /\ \A q \in pairs \ {pair} : pc'[q] = pc[q] ]_vars
    /\ [][ \A p \in pairs :
             /\ pc[p] = "fetch" => pc'[p] \in {"fetch", "sleep", "backoff"}
             /\ pc[p] = "backoff" => pc'[p] \in {"backoff", "poll"}
             /\ pc[p] = "sleep" => pc'[p] \in {"sleep", "poll"}
             /\ (pc[p] = "poll" /\ phase = "running")
                    => pc'[p] \in {"poll", "fetch"}
             /\ (pc'[p] = "done" /\ pc[p] # "done") => phase = "stopping"
         ]_vars

\* A task backs off after its callback raised, the other task's request
\* has failed and it sleeps, and a trade is open.
C28_Witness ==
    /\ phase = "running"
    /\ pc[SolPair] = "backoff"
    /\ pc[BtcPair] = "sleep"
    /\ last_prices.binance["BTCUSDT"] = None
    /\ open_trades # {}

\* C29: an open or close does to the ledger in memory what it does when the
\* save works, whether or not its save or an earlier one failed: an open
\* with enough balance appends its OPEN trade and takes the size, a close of
\* an open trade closes it and returns capital and profit; and every save
\* that works writes the whole ledger as it then is.
C29_SaveFailureKeepsMemory ==
    /\ [][ (call'.op = "execute_trade" /\ clock' # clock) =>
             /\ balance >= trade_size_usdt
             /\ call'.ret = Some(trade_counter + 1)
             /\ trade_counter' = trade_counter + 1
             /\ Len(trades') = Len(trades) + 1
             /\ trades'[Len(trades')].id = trade_counter'
             /\ trades'[Len(trades')].status = "OPEN"
             /\ open_trades' = open_trades \cup {trade_counter'}
             /\ balance' = balance - trade_size_usdt ]_vars
    /\ [][ \A id \in open_trades :
             (call'.op = "close_trade" /\ call'.trade_id = id) =>
               LET i == CHOOSE j \in 1..Len(trades) : trades[j].id = id
               IN  /\ call'.ret # None
                   /\ trades'[i].status = "CLOSED"
                   /\ open_trades' = open_trades \ {id}
                   /\ balance' = balance + trades[i].trade_size_usdt
                                     + call'.ret[1]
                   /\ trades'[i].actual_profit = call'.ret ]_vars
    /\ [][ (disk' # disk /\ disk' # Truncated) =>
             /\ disk'[1].balance = balance'
             /\ disk'[1].trade_counter = trade_counter'
             /\ disk'[1].trades = trades' ]_vars

\* The file holds the ledger as it was after the first open; the saves of
\* the second open and of a close failed, and both happened in memory.
C29_Witness ==
    /\ ~Unreadable(disk)
    /\ Len(disk[1].trades) = 1
    /\ disk[1].trades[1].status = "OPEN"
    /\ Len(trades) = 2
    /\ trades[1].status = "CLOSED"
    /\ open_trades = {2}

\* C30: the close charges the fee the detector charged: a trade closed at
\* prices with no spread between them has an actual profit equal to the
\* expected profit it was opened with.
C30_SameFeeAtEntryAndExit ==
    \A i \in ClosedStatus(trades) :
        trades[i].close_spot_price = trades[i].close_perp_price
            => trades[i].actual_profit[1] = trades[i].expected_profit

\* Two trades opened at different spot prices were closed at no spread.
C30_Witness ==
    \E i, j \in ClosedStatus(trades) :
        /\ trades[i].spot_price # trades[j].spot_price
        /\ trades[i].close_spot_price = trades[i].close_perp_price
        /\ trades[j].close_spot_price = trades[j].close_perp_price
        /\ trades[i].close_spot_price # Some(trades[i].spot_price)

\* C32: every opportunity check_opportunity produces is appended to the
\* detector's history, and the history is a bounded rolling one: it never
\* holds more than the last recent_window opportunities.
C32_HistoryBounded ==
    /\ [](Len(opportunities) <= recent_window)
    /\ [][ (checked' # None /\ checked'[1].ret # None
            /\ total_opportunities' = total_opportunities + 1)
             => /\ Len(opportunities') >= 1
                /\ opportunities'[Len(opportunities')] = checked'[1].ret[1]
       ]_vars

\* C34: in every state the ledger's open-trade index holds exactly the ids
\* of the trades whose status is OPEN, also right after the ledger was
\* reloaded from a file that holds OPEN trades.
C34_IndexIsOpenTrades ==
    open_trades = { trades[i].id : i \in OpenStatus(trades) }

\* C35: an open that is refused leaves the ledger as it was before the
\* call: balance, trades, open-trade index and trade counter keep their
\* values and nothing is written to the file.  The ledger refuses for lack
\* of balance; the orchestrators refuse for lack of capacity by not calling
\* it (the v2 bot after the tick's exits).
C35_RefusedOpenChangesNothing ==
    /\ [][ (call'.op = "execute_trade" /\ call'.ret = None
            /\ ClosedStatus(trades') = ClosedStatus(trades))
             => /\ balance' = balance
                /\ trades' = trades
                /\ open_trades' = open_trades
                /\ trade_counter' = trade_counter
                /\ disk' = disk
       ]_vars
    /\ [](\A pair \in pairs, s \in Spots, u \in Premiums :
            LET L1 == check_exit_conditions(Ledger, pair.spot_symbol, s,
                                            PerpAt(s, u))
                found == check_opportunity(pair.spot_symbol, pair.perp_symbol,
                                           s, PerpAt(s, u), clock)
            IN  /\ ~HasCapacity(L1) =>
                    v2_price_callback(Ledger, Detector, pair, s,
                                      PerpAt(s, u)).ledger = L1
                /\ (found # None /\ ~HasCapacity(Ledger)) =>
                    core_open(Ledger, found[1]) = Ledger
                /\ (found # None /\ InsufficientBalance(Ledger, found[1])) =>
                    LET L2 == execute_trade(Ledger, found[1])
                    IN  /\ L2.call.ret = None
                        /\ [L2 EXCEPT !.call = call] = Ledger)

\* An open was refused for lack of balance while the ledger holds trades.
C35_Witness ==
    /\ call.op = "execute_trade"
    /\ call.ret = None
    /\ trades # <<>>
    /\ balance < trade_size_usdt

\* C36: the daily-loss limit blocks on losses only: while the day's realized
\* profit and loss is not negative, check_trade_allowed never answers with
\* the daily-loss-limit block.
C36_LossLimitOnlyOnLosses ==
    risk.daily_loss >= 0 =>
        \A size \in ApiSizes :
            check_trade_allowed(risk, size, clock).reason
                # "Daily loss limit reached"

\* C37: consecutive_losses changes only with a recorded result or a daily
\* reset: it is not cleared when a cooldown starts nor when it runs out, and
\* the daily reset leaves cooldown_until alone.  So the first losing result
\* after a cooldown has run out starts the next cooldown at once.
C37_CooldownRestartsAtOnce ==
    [][ /\ risk'.consecutive_losses # risk.consecutive_losses =>
              \/ risk'.daily_trades = risk.daily_trades + 1
              \/ risk' = reset_daily_limits(risk)
        /\ (risk' = reset_daily_limits(risk)) =>
              risk'.cooldown_until = risk.cooldown_until
        /\ (risk'.daily_trades = risk.daily_trades + 1
            /\ risk'.daily_loss < risk.daily_loss) =>
              /\ risk'.consecutive_losses = risk.consecutive_losses + 1
              /\ (risk.cooldown_until # None
                  /\ clock >= risk.cooldown_until[1]
                  /\ risk.consecutive_losses >= cooldown_after_losses) =>
                    /\ risk'.cooldown_until = Some(clock + cooldown_duration)
                    /\ ~check_trade_allowed(risk', trade_size_usdt,
                                            clock').allowed
      ]_vars

\* A cooldown that started with more losses in a row than it takes to start
\* one, at a time by which an earlier one can have run out.
C37_Witness ==
    /\ risk.consecutive_losses > cooldown_after_losses
    /\ clock >= cooldown_duration
    /\ risk.cooldown_until = Some(clock + cooldown_duration)

C33_SnapshotsBounded ==
    perf # None => Len(perf[1].hourly_snapshots) <= snapshots_kept

\* C38: the monitor's total_trades never exceeds the number of CLOSED trades
\* of the ledger.
C38_NoTradeRecordedTwice ==
    perf # None =>
        perf[1].metrics.total_trades <= Cardinality(ClosedStatus(trades))

\* C39: profitable_trades + losing_trades = total_trades in every state of
\* the monitor.
C39_WinsAndLossesAddUp ==
    perf # None =>
        perf[1].metrics.profitable_trades + perf[1].metrics.losing_trades
        = perf[1].metrics.total_trades

\* C40: in every report the list holds the "profitable" message exactly when
\* the summary says is_profitable, and the "unprofitable" message exactly
\* when it does not.
C40_AdviceAgreesWithSummary ==
    report # None =>
        LET advice == { report[1].recommendations[i] :
                          i \in DOMAIN report[1].recommendations }
        IN  /\ "profitable" \in advice <=> report[1].is_profitable
            /\ "unprofitable" \in advice <=> ~report[1].is_profitable

====
